---- MODULE Spec2Model ----
(***************************************************************************)
(* The people registry of stina-ext-people: the document-store backed      *)
(* PeopleRepository (src/src/db/repository.ts) and the tools people_list,  *)
(* people_get, people_upsert and people_delete that are layered on it.     *)
(*                                                                         *)
(* Every repository method is an async function.  It runs without          *)
(* interruption between two awaits, and every await is one call of the     *)
(* storage port.  One action of the model is one storage call together     *)
(* with the synchronous code that prepares it and the code that consumes   *)
(* its answer up to the next storage call; calls of different callers      *)
(* interleave between these actions.  A storage call may also be rejected  *)
(* (Fail), and the host may go on in the execution context of another      *)
(* user, whose storage is then the storage the calls reach (SwitchUser).   *)
(*                                                                         *)
(* JavaScript values:                                                      *)
(*   string            a sequence of one-character strings                 *)
(*   optional value    <<>> for undefined, <<v>> for the value v           *)
(*   Person / document a record                                            *)
(*   metadata object   a function from MetaKeys to optional strings, where *)
(*                     <<>> stands for a key that is absent or undefined   *)
(*   ISO timestamp     the clock reading it was made from                  *)
(*   null, non-string  a one-element sequence whose element is no          *)
(*                     character (Null, NotAString)                        *)
(***************************************************************************)
EXTENDS Naturals, Sequences, FiniteSets, TLC

\* Number of concurrent callers of the repository.
NumProcs == 2
\* Number of calls started in one behaviour.
MaxCalls == 3
\* Last reading of the clock.
MaxClock == 1

\* The callers whose calls run concurrently.
Procs == 1..NumProcs
\* The caller of the sequential specifications, whose calls do not overlap.
Caller == NumProcs + 1
\* The users of the host: each concurrent caller acts for a user of its own.
Users == Procs

VARIABLES
  storage,  \* the 'people' collection: document id -> document
  clock,    \* Date.now()
  nextId,   \* the id generateId() returns next: the timestamp and the seven
            \* random characters of an id are taken to make every id new
  ncalls,   \* calls started so far
  call,     \* per caller: the call in progress, its locals and its result
  pre,      \* the storage as it was when Caller's last call started
  rejected, \* the callers whose call has had a storage call rejected
  user,     \* the user in whose execution context the host is running:
            \* `storage` is execContext.userStorage of this user
  userStorage, \* per user: the user's storage as the host keeps it while it
            \* runs in another context
  initialized, \* this.initialized of the relational repository
  schema,   \* the schema objects of the database: the table
            \* ext_people_registry_persons and its index, once created
  first     \* what the upsert() returned that Caller's call in progress
            \* repeats, if it repeats one

\* What the host provides besides the storage of the context it runs in.
host == <<rejected, user, userStorage, initialized, schema, first>>

vars ==
  <<storage, clock, nextId, ncalls, call, pre, rejected, user, userStorage, initialized,
    schema, first>>

----------------------------------------------------------------------------
\* Records

\* The records of the model.  TLC keeps the fields of a record in the order in
\* which their names first occur in the module, which is the order of these
\* definitions; every record of the module is written in that order, so that
\* no worker of TLC has to reorder the fields of a record that another worker
\* is reading.

\* A call in progress: the operation, the place it has reached, its argument,
\* its locals and its result.
Call(op, pc, arg, id, input, options, existing, result) ==
  [op |-> op, pc |-> pc, arg |-> arg, id |-> id, input |-> input,
   options |-> options, existing |-> existing, result |-> result]

\* What a caller passes: an id (0: none), a PersonInput, list options and the
\* metadata parameters of people_upsert.
Arg(id, input, options, params) ==
  [id |-> id, input |-> input, options |-> options, params |-> params]

PersonDocument(id, name, normalizedName, description, metadata, createdAt, updatedAt) ==
  [id |-> id, name |-> name, normalizedName |-> normalizedName,
   description |-> description, metadata |-> metadata,
   createdAt |-> createdAt, updatedAt |-> updatedAt]

PersonInput(name, description, metadata) ==
  [name |-> name, description |-> description, metadata |-> metadata]

ListPeopleOptions(query, limit, offset) ==
  [query |-> query, limit |-> limit, offset |-> offset]

\* What a call returns: the person, upsert's created, whether it succeeded,
\* the error string of a tool, the people listed.
Result(person, created, ok, error, people) ==
  [person |-> person, created |-> created, ok |-> ok, error |-> error,
   people |-> people]

----------------------------------------------------------------------------
\* Optional values

None == <<>>
Some(v) == <<v>>
IsDef(o) == o # <<>>
Val(o) == o[1]

----------------------------------------------------------------------------
\* Strings

\* String.prototype.toLowerCase on one character of the model's alphabet.
LowerChar(c) ==
  CASE c = "A" -> "a" [] c = "B" -> "b" [] c = "I" -> "i" [] c = "M" -> "m"
    [] c = "R" -> "r" [] c = "Z" -> "z" [] OTHER -> c

RECURSIVE toLowerCase(_)
toLowerCase(s) == IF s = <<>> THEN <<>> ELSE <<LowerChar(Head(s))>> \o toLowerCase(Tail(s))

IsSpace(c) == c = " "

RECURSIVE trimStart(_)
trimStart(s) == IF s # <<>> /\ IsSpace(Head(s)) THEN trimStart(Tail(s)) ELSE s

RECURSIVE trimEnd(_)
trimEnd(s) ==
  IF s # <<>> /\ IsSpace(s[Len(s)]) THEN trimEnd(SubSeq(s, 1, Len(s) - 1)) ELSE s

\* String.prototype.trim
trim(s) == trimEnd(trimStart(s))

\* null
Null == <<"null">>
\* A value that is truthy and not a string, such as a number or an object.
NotAString == <<"object">>

\* typeof v === 'string'
IsString(v) == v \notin {Null, NotAString}

\* v ?? d takes d when v is undefined or null.
Nullish(o) == ~IsDef(o) \/ Val(o) = Null

\* A value is truthy when it is neither undefined, null nor the empty string.
Truthy(o) == IsDef(o) /\ Val(o) # <<>> /\ Val(o) # Null

\* name.toLowerCase().trim()
normalizeName(name) == trim(toLowerCase(name))

\* The code unit of a character of the model's alphabet.
CharCode(c) ==
  CASE c = " " -> 32 [] c = "%" -> 37 [] c = "A" -> 65 [] c = "B" -> 66
    [] c = "I" -> 73 [] c = "M" -> 77 [] c = "R" -> 82 [] c = "Z" -> 90
    [] c = "_" -> 95 [] c = "a" -> 97 [] c = "b" -> 98 [] c = "e" -> 101
    [] c = "i" -> 105 [] c = "k" -> 107 [] c = "l" -> 108 [] c = "m" -> 109
    [] c = "o" -> 111 [] c = "r" -> 114 [] c = "z" -> 122

\* s < t in the order of strings by code units.
RECURSIVE StrLess(_, _)
StrLess(s, t) ==
  IF t = <<>> THEN FALSE
  ELSE IF s = <<>> THEN TRUE
  ELSE IF Head(s) = Head(t) THEN StrLess(Tail(s), Tail(t))
  ELSE CharCode(Head(s)) < CharCode(Head(t))

\* sub occurs in s.
Contains(s, sub) ==
  /\ Len(sub) <= Len(s)
  /\ \E i \in 0..(Len(s) - Len(sub)) : SubSeq(s, i + 1, i + Len(sub)) = sub

Min(a, b) == IF a <= b THEN a ELSE b

\* The elements of s from position offset (counted from 0), at most limit of them.
Slice(s, offset, limit) == SubSeq(s, offset + 1, Min(Len(s), offset + limit))

----------------------------------------------------------------------------
\* Metadata

Recognized == {"relationship", "email", "phone", "birthday", "workplace"}
\* "nickname" stands for the custom fields PersonMetadata allows.
MetaKeys == Recognized \cup {"nickname"}

EmptyMetadata == [k \in MetaKeys |-> None]

----------------------------------------------------------------------------
\* The storage port (StorageAPI) on the 'people' collection

StorageGet(id) == IF id \in DOMAIN storage THEN Some(storage[id]) ELSE None

\* The answers findOne may give: one of the matching documents, or none.
StorageFindOne(normalizedName) ==
  LET hits == {i \in DOMAIN storage : storage[i].normalizedName = normalizedName}
  IN  IF hits = {} THEN {None} ELSE {Some(storage[i]) : i \in hits}

\* The orders in which the documents `ids` of `table` are ascending in `field`.
Ascending(table, ids, field) ==
  {f \in [1..Cardinality(ids) -> ids] :
     /\ \A i, j \in DOMAIN f : f[i] = f[j] => i = j
     /\ \A i, j \in DOMAIN f : i < j => ~StrLess(table[f[j]][field], table[f[i]][field])}

\* The answers find may give to the filter {} (None) or
\* {normalizedName: {$contains: v}} (Some(v)), a substring condition that
\* ignores case, with the options {sort: {[field]: 'asc'}, limit, offset}.
StorageFind(filter, field, limit, offset) ==
  LET hits == {i \in DOMAIN storage :
                 IsDef(filter) => Contains(toLowerCase(storage[i].normalizedName),
                                           toLowerCase(Val(filter)))}
  IN  {Slice([k \in DOMAIN f |-> storage[f[k]]], offset, limit) :
         f \in Ascending(storage, hits, field)}

\* s LIKE pattern: % matches any run of characters, _ any one character, and
\* letters match without regard to case.
RECURSIVE SqlLike(_, _)
SqlLike(s, pattern) ==
  IF pattern = <<>> THEN s = <<>>
  ELSE IF Head(pattern) = "%"
       THEN SqlLike(s, Tail(pattern)) \/ (s # <<>> /\ SqlLike(Tail(s), pattern))
       ELSE /\ s # <<>>
            /\ Head(pattern) = "_" \/ LowerChar(Head(pattern)) = LowerChar(Head(s))
            /\ SqlLike(Tail(s), Tail(pattern))

\* The rows SELECT ... [WHERE normalized_name LIKE pattern] ORDER BY name ASC
\* LIMIT limit OFFSET offset may give.  The rows of the table
\* ext_people_registry_persons are the documents of `storage`.
SqlSelect(pattern, limit, offset) ==
  LET hits == {i \in DOMAIN storage :
                 IsDef(pattern) => SqlLike(storage[i].normalizedName, Val(pattern))}
  IN  {Slice([k \in DOMAIN f |-> storage[f[k]]], offset, limit) :
         f \in Ascending(storage, hits, "name")}

StoragePut(id, doc) ==
  storage' = [i \in DOMAIN storage \cup {id} |-> IF i = id THEN doc ELSE storage[i]]

StorageDelete(id) ==
  storage' = [i \in DOMAIN storage \ {id} |-> storage[i]]

----------------------------------------------------------------------------
\* Documents

documentToPerson(doc) ==
  [id |-> doc.id, name |-> doc.name, normalizedName |-> doc.normalizedName,
   description |-> doc.description, metadata |-> doc.metadata,
   createdAt |-> doc.createdAt, updatedAt |-> doc.updatedAt]

\* recordToPerson of the relational variant: NULL columns become undefined.
recordToPerson(record) ==
  [id |-> record.id, name |-> record.name, normalizedName |-> record.normalizedName,
   description |-> IF Nullish(record.description) THEN None ELSE record.description,
   metadata |-> IF IsDef(record.metadata) THEN record.metadata ELSE None,
   createdAt |-> record.createdAt, updatedAt |-> record.updatedAt]

\* create() as it would be if it dropped the metadata: C9_UpsertNewActsAsCreate
\* does not hold of it.
CreateDocNoMetadata(id, input, now) ==
  [id |-> id, name |-> Val(input.name),
   normalizedName |-> normalizeName(Val(input.name)),
   description |-> input.description, metadata |-> None,
   createdAt |-> now, updatedAt |-> now]

\* The document create() builds.
CreateDoc(id, input, now) ==
  [id |-> id, name |-> Val(input.name),
   normalizedName |-> normalizeName(Val(input.name)),
   description |-> input.description, metadata |-> input.metadata,
   createdAt |-> now, updatedAt |-> now]

\* update() as it would be if it stamped createdAt anew: C4_UpsertExistingInPlace
\* does not hold of it.
UpdateDocNewCreatedAt(existing, input, now) ==
  [id |-> existing.id,
   name |-> IF Nullish(input.name) THEN existing.name ELSE Val(input.name),
   normalizedName |-> IF Truthy(input.name) THEN normalizeName(Val(input.name))
                      ELSE existing.normalizedName,
   description |-> IF IsDef(input.description) THEN input.description
                   ELSE existing.description,
   metadata |-> IF IsDef(input.metadata) THEN input.metadata ELSE existing.metadata,
   createdAt |-> now, updatedAt |-> now]

\* update() as it would be if it left updatedAt alone: C12_TimestampsOrdered does
\* not hold of it.
UpdateDocKeepsUpdatedAt(existing, input, now) ==
  [id |-> existing.id,
   name |-> IF Nullish(input.name) THEN existing.name ELSE Val(input.name),
   normalizedName |-> IF Truthy(input.name) THEN normalizeName(Val(input.name))
                      ELSE existing.normalizedName,
   description |-> IF IsDef(input.description) THEN input.description
                   ELSE existing.description,
   metadata |-> IF IsDef(input.metadata) THEN input.metadata ELSE existing.metadata,
   createdAt |-> existing.createdAt, updatedAt |-> existing.updatedAt]

\* update() as it would be if it kept a description or a metadata object that
\* is empty out of the document: C13_UpdateReplacesByPresence does not hold of it.
UpdateDocTruthyFields(existing, input, now) ==
  [id |-> existing.id,
   name |-> IF Nullish(input.name) THEN existing.name ELSE Val(input.name),
   normalizedName |-> IF Truthy(input.name) THEN normalizeName(Val(input.name))
                      ELSE existing.normalizedName,
   description |-> IF Truthy(input.description) THEN input.description
                   ELSE existing.description,
   metadata |-> IF IsDef(input.metadata) /\ Val(input.metadata) # EmptyMetadata
                THEN input.metadata ELSE existing.metadata,
   createdAt |-> existing.createdAt, updatedAt |-> now]

\* The document update() builds from the record it read.
UpdateDoc(existing, input, now) ==
  [id |-> existing.id,
   name |-> IF Nullish(input.name) THEN existing.name ELSE Val(input.name),
   normalizedName |-> IF Truthy(input.name) THEN normalizeName(Val(input.name))
                      ELSE existing.normalizedName,
   description |-> IF IsDef(input.description) THEN input.description
                   ELSE existing.description,
   metadata |-> IF IsDef(input.metadata) THEN input.metadata ELSE existing.metadata,
   createdAt |-> existing.createdAt, updatedAt |-> now]

----------------------------------------------------------------------------
\* people_upsert: the metadata it passes to the repository

NoParams == [k \in Recognized |-> None]

\* value.trim() || undefined
TrimOrUndefined(v) == IF trim(v) # <<>> THEN Some(trim(v)) ELSE None

hasMetadataFields(params) == \E k \in Recognized : IsDef(params[k])

\* Update by id: the stored metadata with every provided field overwritten.
mergedMetadata(existingMetadata, params) ==
  LET base == IF IsDef(existingMetadata) THEN Val(existingMetadata) ELSE EmptyMetadata
  IN  [k \in MetaKeys |->
        IF k \in Recognized /\ IsDef(params[k]) THEN TrimOrUndefined(Val(params[k]))
        ELSE base[k]]

\* The input update() gets from people_upsert when an id is given.
ToolUpdateInput(arg, existing) ==
  [name |-> IF Nullish(arg.input.name) THEN None ELSE Some(trim(Val(arg.input.name))),
   description |-> arg.input.description,
   metadata |-> IF hasMetadataFields(arg.params)
                THEN Some(mergedMetadata(existing.metadata, arg.params))
                ELSE None]

\* Upsert by name: only the provided non-blank fields.
builtMetadata(params) ==
  [k \in MetaKeys |->
    IF k \in Recognized /\ IsDef(params[k]) /\ trim(Val(params[k])) # <<>>
    THEN Some(trim(Val(params[k]))) ELSE None]

\* The input upsert() gets from people_upsert when no id is given.
ToolUpsertInput(arg) ==
  LET metadata == builtMetadata(arg.params)
  IN  [name |-> Some(trim(Val(arg.input.name))),
       description |-> arg.input.description,
       metadata |-> IF \E k \in MetaKeys : IsDef(metadata[k]) THEN Some(metadata)
                    ELSE None]

\* !name || typeof name !== 'string' || name.trim() === ''
NameMissing(name) == ~Truthy(name) \/ ~IsString(Val(name)) \/ trim(Val(name)) = <<>>

----------------------------------------------------------------------------
\* Calls

NoInput == PersonInput(None, None, None)
\* ListPeopleOptions with nothing given.
NoOptions == ListPeopleOptions(None, None, None)
NoArg == Arg(0, NoInput, NoOptions, NoParams)
NoResult == Result(None, FALSE, FALSE, "", <<>>)

IdleCall == Call("none", "idle", NoArg, 0, NoInput, NoOptions, None, NoResult)

\* A call as it is entered.
Enter(op, pc, arg) ==
  Call(op, pc, arg, arg.id, arg.input, arg.options, None, NoResult)

CanStart(p) == call[p].pc \in {"idle", "done", "thrown"} /\ ncalls < MaxCalls

Begin(p, c) ==
  /\ CanStart(p)
  /\ call' = [call EXCEPT ![p] = c]
  /\ ncalls' = ncalls + 1
  /\ pre' = IF p = Caller THEN storage ELSE pre
  /\ rejected' = rejected \ {p}
  /\ first' = IF p = Caller THEN None ELSE first
  /\ UNCHANGED <<storage, clock, nextId, user, userStorage, initialized, schema>>

Return(c, result) == [c EXCEPT !.pc = "done", !.result = result]

\* The call ends with an exception that reaches its caller.
Throw(c, error) ==
  [c EXCEPT !.pc = "thrown", !.result = [NoResult EXCEPT !.error = error]]

\* The tools, whose execute() has a try block around all it does.
Tools == {"people_list", "people_get", "people_upsert", "people_delete"}

\* `No person found with ID "${id}"` or `No person found with name "${name}"`,
\* as people_get and people_delete choose: if (id) ... else ...
NotFound(c) ==
  IF c.arg.id # 0 THEN "No person found with ID" ELSE "No person found with name"

\* The data of people_get: the person without its normalizedName, with the
\* recognized fields of its metadata.
ToolGetData(person) ==
  [id |-> person.id, name |-> person.name, description |-> person.description,
   metadata |-> [k \in MetaKeys |->
                   IF k \in Recognized /\ IsDef(person.metadata)
                   THEN Val(person.metadata)[k] ELSE None],
   createdAt |-> person.createdAt, updatedAt |-> person.updatedAt]

\* What the call returns when its getById() or getByName() has returned
\* `person` (None: null).  people_get makes a failure of null.
Got(c, person) ==
  IF c.op # "people_get"
  THEN [NoResult EXCEPT !.person = person, !.ok = IsDef(person)]
  ELSE IF IsDef(person)
       THEN [NoResult EXCEPT !.person = Some(ToolGetData(Val(person))), !.ok = TRUE]
       ELSE [NoResult EXCEPT !.error = NotFound(c)]

\* What the call returns when its delete() or deleteByName() has returned
\* `deleted`.  people_delete makes a failure of false.
Deleted(c, deleted) ==
  IF c.op = "people_delete" /\ ~deleted
  THEN [NoResult EXCEPT !.error = NotFound(c)]
  ELSE [NoResult EXCEPT !.ok = deleted]

\* What the call returns when its create() has stored `person`.
Created(c, person) ==
  [person |-> Some(person), created |-> TRUE, ok |-> TRUE, error |-> "",
   people |-> <<>>]

\* What the call returns when its update() has returned `updated` (None: null).
\* upsert() passes null on as its person; people_upsert reads a property of it,
\* and its catch block turns the TypeError into a failure.
Updated(c, updated) ==
  IF c.op = "people_upsert" /\ ~IsDef(updated)
  THEN [NoResult EXCEPT !.error = "TypeError"]
  ELSE [NoResult EXCEPT !.person = updated,
                        !.ok = (c.op = "upsert" \/ IsDef(updated))]

----------------------------------------------------------------------------
\* The calls a caller may start.  `inputs` is the set of PersonInput values,
\* `ids` the set of ids and `names` the set of names the callers pass.

StartGetById(p, ids) ==
  \E id \in ids : Begin(p, Enter("getById", "get", [NoArg EXCEPT !.id = id]))

\* const { query, limit = 50, offset = 0 } = options
ListDefaultLimit == 50

ListOptions(options) ==
  [query |-> options.query,
   limit |-> IF IsDef(options.limit) THEN options.limit ELSE Some(ListDefaultLimit),
   offset |-> IF IsDef(options.offset) THEN options.offset ELSE Some(0)]

\* list of the document store repository
StartList(p, optionss) ==
  \E options \in optionss :
    Begin(p, [Enter("list", "list", [NoArg EXCEPT !.options = options]) EXCEPT
                !.options = ListOptions(options)])

\* The relational repository as it would be if its operations went to their
\* data statements without initialize(): C35_SchemaBeforeData does not hold of
\* it.
SqlInitializeSkipped(c) == c

\* await this.initialize() at the head of every operation of the relational
\* repository: if (this.initialized) return, and the operation goes on to its
\* data statement; otherwise CREATE TABLE IF NOT EXISTS is awaited first.
SqlInitialize(c) == IF initialized THEN c ELSE [c EXCEPT !.pc = "sql_table"]

\* The first data statement of an operation of the relational repository.
SqlDataPc(op) ==
  CASE op = "sql_list" -> "sql_list"
    [] op = "sql_create" -> "sql_insert"
    [] op = "sql_delete" -> "sql_delete_get"

\* list of the relational repository
StartSqlList(p, optionss) ==
  \E options \in optionss :
    Begin(p, SqlInitialize([Enter("sql_list", "sql_list",
                                  [NoArg EXCEPT !.options = options]) EXCEPT
                              !.options = ListOptions(options)]))

\* create of the relational repository
StartSqlCreate(p, inputs) ==
  \E input \in inputs :
    /\ IsDef(input.name)
    /\ Begin(p, SqlInitialize(Enter("sql_create", "sql_insert",
                                    [NoArg EXCEPT !.input = input])))

\* delete of the relational repository
StartSqlDelete(p, ids) ==
  \E id \in ids :
    Begin(p, SqlInitialize(Enter("sql_delete", "sql_delete_get",
                                 [NoArg EXCEPT !.id = id])))

StartGetByName(p, names) ==
  \E name \in names :
    Begin(p, Enter("getByName", "find", [NoArg EXCEPT !.input.name = Some(name)]))

StartCreate(p, inputs) ==
  \E input \in inputs :
    /\ IsDef(input.name)
    /\ Begin(p, Enter("create", "create", [NoArg EXCEPT !.input = input]))

StartUpdate(p, ids, inputs) ==
  \E id \in ids, input \in inputs :
    Begin(p, Enter("update", "update_get", [NoArg EXCEPT !.id = id, !.input = input]))

StartUpsert(p, inputs) ==
  \E input \in inputs :
    /\ IsDef(input.name)
    /\ Begin(p, Enter("upsert", "upsert_find", [NoArg EXCEPT !.input = input]))

\* The caller calls upsert() again with the input of the upsert() that has
\* just returned, and keeps what that one returned.
StartUpsertAgain(p) ==
  /\ CanStart(p)
  /\ call[p].op = "upsert"
  /\ call[p].pc = "done"
  /\ call' = [call EXCEPT ![p] = Enter("upsert", "upsert_find", call[p].arg)]
  /\ ncalls' = ncalls + 1
  /\ pre' = IF p = Caller THEN storage ELSE pre
  /\ rejected' = rejected \ {p}
  /\ first' = Some(call[p].result)
  /\ UNCHANGED <<storage, clock, nextId, user, userStorage, initialized, schema>>

StartDelete(p, ids) ==
  \E id \in ids : Begin(p, Enter("delete", "delete_get", [NoArg EXCEPT !.id = id]))

StartDeleteByName(p, names) ==
  \E name \in names :
    Begin(p, Enter("deleteByName", "delete_find",
                   [NoArg EXCEPT !.input.name = Some(name)]))

----------------------------------------------------------------------------
\* PeopleRepository, one action per storage call

\* getById() as it would be if it took the record out of the store:
\* C33_ReadsNeverWrite does not hold of it.
GetByIdTaking(p) ==
  LET c == call[p]
      doc == StorageGet(c.id)
  IN  /\ c.pc = "get"
      /\ StorageDelete(c.id)
      /\ call' = [call EXCEPT ![p] =
           Return(c, Got(c, IF IsDef(doc) THEN Some(documentToPerson(Val(doc)))
                            ELSE None))]
      /\ UNCHANGED <<clock, nextId, ncalls, pre, host>>

\* getById: storage.get
GetById(p) ==
  LET c == call[p]
      doc == StorageGet(c.id)
  IN  /\ c.pc = "get"
      /\ call' = [call EXCEPT ![p] =
           Return(c, Got(c, IF IsDef(doc) THEN Some(documentToPerson(Val(doc)))
                            ELSE None))]
      /\ UNCHANGED <<storage, clock, nextId, ncalls, pre, host>>

\* getByName() as it would be if it looked up the name as given:
\* C17_GetByNameExactNormalized does not hold of it.
GetByNameRaw(p) ==
  LET c == call[p]
  IN  /\ c.pc = "find"
      /\ \E doc \in StorageFindOne(Val(c.input.name)) :
           call' = [call EXCEPT ![p] =
             Return(c, Got(c, IF IsDef(doc) THEN Some(documentToPerson(Val(doc)))
                              ELSE None))]
      /\ UNCHANGED <<storage, clock, nextId, ncalls, pre, host>>

\* getByName: storage.findOne on the normalized name
GetByName(p) ==
  LET c == call[p]
  IN  /\ c.pc = "find"
      /\ \E doc \in StorageFindOne(normalizeName(Val(c.input.name))) :
           call' = [call EXCEPT ![p] =
             Return(c, Got(c, IF IsDef(doc) THEN Some(documentToPerson(Val(doc)))
                              ELSE None))]
      /\ UNCHANGED <<storage, clock, nextId, ncalls, pre, host>>

\* What people_list returns of each person.
ToolListPeople(people) ==
  [k \in DOMAIN people |->
     [id |-> people[k].id, name |-> people[k].name,
      description |-> people[k].description,
      relationship |-> IF IsDef(people[k].metadata)
                       THEN Val(people[k].metadata).relationship ELSE None]]

\* What list returns to its caller, and what people_list makes of it.
Listed(c, people) ==
  [NoResult EXCEPT !.ok = TRUE,
                   !.people = IF c.op = "people_list" THEN ToolListPeople(people)
                              ELSE people]

\* list() as it would be if it sorted by the normalized name:
\* C16_ListWithoutQuery does not hold of it.
ListByNormalizedName(p) ==
  LET c == call[p]
      query == c.options.query
      filter == IF Truthy(query) THEN Some(normalizeName(Val(query))) ELSE None
  IN  /\ c.pc = "list"
      /\ \E docs \in StorageFind(filter, "normalizedName", Val(c.options.limit),
                                  Val(c.options.offset)) :
           call' = [call EXCEPT ![p] =
             Return(c, Listed(c, [k \in DOMAIN docs |-> documentToPerson(docs[k])]))]
      /\ UNCHANGED <<storage, clock, nextId, ncalls, pre, host>>

\* list: storage.find with the filter of the query, sorted by name
List(p) ==
  LET c == call[p]
      query == c.options.query
      filter == IF Truthy(query) THEN Some(normalizeName(Val(query))) ELSE None
  IN  /\ c.pc = "list"
      /\ \E docs \in StorageFind(filter, "name", Val(c.options.limit),
                                  Val(c.options.offset)) :
           call' = [call EXCEPT ![p] =
             Return(c, Listed(c, [k \in DOMAIN docs |-> documentToPerson(docs[k])]))]
      /\ UNCHANGED <<storage, clock, nextId, ncalls, pre, host>>

\* list of the relational repository: the SELECT, with normalized_name LIKE
\* '%' + the normalized query + '%' when a query is given.
SqlList(p) ==
  LET c == call[p]
      query == c.options.query
      pattern == IF Truthy(query)
                 THEN Some(<<"%">> \o normalizeName(Val(query)) \o <<"%">>) ELSE None
  IN  /\ c.pc = "sql_list"
      /\ \E rows \in SqlSelect(pattern, Val(c.options.limit), Val(c.options.offset)) :
           call' = [call EXCEPT ![p] =
             Return(c, Listed(c, [k \in DOMAIN rows |-> recordToPerson(rows[k])]))]
      /\ UNCHANGED <<storage, clock, nextId, ncalls, pre, host>>

\* create() as it would be if it looked the name up again and left a stored
\* name alone: C2_UpsertCreatesAfterNotFound does not hold of it.
CreateUnlessStored(p) ==
  LET c == call[p]
      doc == CreateDoc(nextId, c.input, clock)
      hits == {i \in DOMAIN storage : storage[i].normalizedName = doc.normalizedName}
  IN  /\ c.pc = "create"
      /\ IF hits = {}
         THEN /\ StoragePut(doc.id, doc)
              /\ nextId' = nextId + 1
              /\ call' = [call EXCEPT ![p] = Return(c, Created(c, documentToPerson(doc)))]
         ELSE /\ UNCHANGED <<storage, nextId>>
              /\ \E i \in hits :
                   call' = [call EXCEPT ![p] =
                     Return(c, Updated(c, Some(documentToPerson(storage[i]))))]
      /\ UNCHANGED <<clock, ncalls, pre, host>>

\* create() as it would be if it returned the document without storing it:
\* C10_CreateThenGetById does not hold of it.
CreateNotStored(p) ==
  LET c == call[p]
      doc == CreateDoc(nextId, c.input, clock)
  IN  /\ c.pc = "create"
      /\ nextId' = nextId + 1
      /\ call' = [call EXCEPT ![p] = Return(c, Created(c, documentToPerson(doc)))]
      /\ UNCHANGED <<storage, clock, ncalls, pre, host>>

\* create() as it would be if generateId() returned the id it returned last:
\* C34_OneRecordChanged does not hold of it.
CreateUnderLastId(p) ==
  LET c == call[p]
      doc == CreateDoc(IF nextId > 1 THEN nextId - 1 ELSE nextId, c.input, clock)
  IN  /\ c.pc = "create"
      /\ StoragePut(doc.id, doc)
      /\ nextId' = nextId + 1
      /\ call' = [call EXCEPT ![p] = Return(c, Created(c, documentToPerson(doc)))]
      /\ UNCHANGED <<clock, ncalls, pre, host>>

\* create: the document is built and put under a generated id
Create(p) ==
  LET c == call[p]
      doc == CreateDoc(nextId, c.input, clock)
  IN  /\ c.pc = "create"
      /\ StoragePut(doc.id, doc)
      /\ nextId' = nextId + 1
      /\ call' = [call EXCEPT ![p] = Return(c, Created(c, documentToPerson(doc)))]
      /\ UNCHANGED <<clock, ncalls, pre, host>>

\* update() as it would be without its check of the record it read, reading a
\* property of null: C14_UpdateAbsentNoWrite does not hold of it.
UpdateGetAbsentThrows(p) ==
  LET c == call[p]
      existing == StorageGet(c.id)
  IN  /\ c.pc = "update_get"
      /\ call' = [call EXCEPT ![p] =
           IF IsDef(existing)
           THEN [c EXCEPT !.pc = "update_put",
                          !.existing = Some(documentToPerson(Val(existing)))]
           ELSE Return(c, [NoResult EXCEPT !.error = "TypeError"])]
      /\ UNCHANGED <<storage, clock, nextId, ncalls, pre, host>>

\* update: const existing = await this.getById(id); if (!existing) return null
UpdateGet(p) ==
  LET c == call[p]
      existing == StorageGet(c.id)
  IN  /\ c.pc = "update_get"
      /\ call' = [call EXCEPT ![p] =
           IF IsDef(existing)
           THEN [c EXCEPT !.pc = "update_put",
                          !.existing = Some(documentToPerson(Val(existing)))]
           ELSE Return(c, Updated(c, None))]
      /\ UNCHANGED <<storage, clock, nextId, ncalls, pre, host>>

\* update() as it would be if it rebuilt the document from the record stored at
\* the time of the write: C7_UpdateWritesFromItsRead does not hold of it.
UpdatePutOnStored(p) ==
  LET c == call[p]
      current == IF c.id \in DOMAIN storage THEN storage[c.id] ELSE Val(c.existing)
      doc == UpdateDoc(current, c.input, clock)
  IN  /\ c.pc = "update_put"
      /\ StoragePut(c.id, doc)
      /\ call' = [call EXCEPT ![p] = Return(c, Updated(c, Some(documentToPerson(doc))))]
      /\ UNCHANGED <<clock, nextId, ncalls, pre, host>>

\* update: the document is rebuilt from `existing` and put under the same id
UpdatePut(p) ==
  LET c == call[p]
      doc == UpdateDoc(Val(c.existing), c.input, clock)
  IN  /\ c.pc = "update_put"
      /\ StoragePut(c.id, doc)
      /\ call' = [call EXCEPT ![p] = Return(c, Updated(c, Some(documentToPerson(doc))))]
      /\ UNCHANGED <<clock, nextId, ncalls, pre, host>>

\* upsert() as it would be if it created without looking the name up:
\* C1_UniqueKeptWithoutCollidingWrite does not hold of it.
UpsertFindNoLookup(p) ==
  LET c == call[p]
  IN  /\ c.pc = "upsert_find"
      /\ call' = [call EXCEPT ![p] = [c EXCEPT !.pc = "create"]]
      /\ UNCHANGED <<storage, clock, nextId, ncalls, pre, host>>

\* upsert: const existing = await this.getByName(input.name), then update or create
UpsertFind(p) ==
  LET c == call[p]
  IN  /\ c.pc = "upsert_find"
      /\ \E existing \in StorageFindOne(normalizeName(Val(c.input.name))) :
           call' = [call EXCEPT ![p] =
             IF IsDef(existing)
             THEN [c EXCEPT !.pc = "update_get", !.id = Val(existing).id]
             ELSE [c EXCEPT !.pc = "create"]]
      /\ UNCHANGED <<storage, clock, nextId, ncalls, pre, host>>

\* delete() as it would be if it reported an absent id as deleted:
\* C8_DeleteThenAbsent does not hold of it.
DeleteGetAbsentTrue(p) ==
  LET c == call[p]
      existing == StorageGet(c.id)
  IN  /\ c.pc = "delete_get"
      /\ call' = [call EXCEPT ![p] =
           IF IsDef(existing) THEN [c EXCEPT !.pc = "delete"]
           ELSE Return(c, Deleted(c, TRUE))]
      /\ UNCHANGED <<storage, clock, nextId, ncalls, pre, host>>

\* delete: const existing = await this.getById(id); if (!existing) return false
DeleteGet(p) ==
  LET c == call[p]
      existing == StorageGet(c.id)
  IN  /\ c.pc = "delete_get"
      /\ call' = [call EXCEPT ![p] =
           IF IsDef(existing) THEN [c EXCEPT !.pc = "delete"]
           ELSE Return(c, Deleted(c, FALSE))]
      /\ UNCHANGED <<storage, clock, nextId, ncalls, pre, host>>

\* deleteByName: const existing = await this.getByName(name)
DeleteFind(p) ==
  LET c == call[p]
  IN  /\ c.pc = "delete_find"
      /\ \E existing \in StorageFindOne(normalizeName(Val(c.input.name))) :
           call' = [call EXCEPT ![p] =
             IF IsDef(existing) THEN [c EXCEPT !.pc = "delete", !.id = Val(existing).id]
             ELSE Return(c, Deleted(c, FALSE))]
      /\ UNCHANGED <<storage, clock, nextId, ncalls, pre, host>>

\* delete() and deleteByName() as they would be if they returned true without
\* deleting: C28_DeleteByNameOfSingleName does not hold of them.
DeleteNotRemoved(p) ==
  LET c == call[p]
  IN  /\ c.pc = "delete"
      /\ call' = [call EXCEPT ![p] = Return(c, Deleted(c, c.id \in DOMAIN storage))]
      /\ UNCHANGED <<storage, clock, nextId, ncalls, pre, host>>

\* delete, deleteByName: return await this.storage.delete(COLLECTION, id)
Delete(p) ==
  LET c == call[p]
  IN  /\ c.pc = "delete"
      /\ StorageDelete(c.id)
      /\ call' = [call EXCEPT ![p] =
           Return(c, Deleted(c, c.id \in DOMAIN storage))]
      /\ UNCHANGED <<clock, nextId, ncalls, pre, host>>

----------------------------------------------------------------------------
\* The relational PeopleRepository, one action per statement.  The rows of the
\* table ext_people_registry_persons are the documents of `storage`.

\* initialize: CREATE TABLE IF NOT EXISTS ext_people_registry_persons
SqlCreateTable(p) ==
  LET c == call[p]
  IN  /\ c.pc = "sql_table"
      /\ schema' = schema \cup {"table"}
      /\ call' = [call EXCEPT ![p] = [c EXCEPT !.pc = "sql_index"]]
      /\ UNCHANGED <<storage, clock, nextId, ncalls, pre, rejected, user, userStorage,
                     initialized, first>>

\* initialize: CREATE INDEX IF NOT EXISTS, then this.initialized = true; the
\* operation goes on to its data statement.
SqlCreateIndex(p) ==
  LET c == call[p]
  IN  /\ c.pc = "sql_index"
      /\ schema' = schema \cup {"index"}
      /\ initialized' = TRUE
      /\ call' = [call EXCEPT ![p] = [c EXCEPT !.pc = SqlDataPc(c.op)]]
      /\ UNCHANGED <<storage, clock, nextId, ncalls, pre, rejected, user, userStorage,
                     first>>

\* The row create() inserts: description and metadata ?? null.
SqlRecord(id, input, now) ==
  [id |-> id, name |-> Val(input.name),
   normalizedName |-> normalizeName(Val(input.name)),
   description |-> IF Nullish(input.description) THEN Some(Null) ELSE input.description,
   metadata |-> input.metadata, createdAt |-> now, updatedAt |-> now]

\* create: the INSERT; the record is returned through recordToPerson
SqlInsert(p) ==
  LET c == call[p]
      record == SqlRecord(nextId, c.input, clock)
  IN  /\ c.pc = "sql_insert"
      /\ StoragePut(record.id, record)
      /\ nextId' = nextId + 1
      /\ call' = [call EXCEPT ![p] = Return(c, Created(c, recordToPerson(record)))]
      /\ UNCHANGED <<clock, ncalls, pre, host>>

\* delete: const existing = await this.getById(id), the SELECT by id;
\* if (!existing) return false
SqlDeleteGet(p) ==
  LET c == call[p]
      existing == StorageGet(c.id)
  IN  /\ c.pc = "sql_delete_get"
      /\ call' = [call EXCEPT ![p] =
           IF IsDef(existing) THEN [c EXCEPT !.pc = "sql_delete"]
           ELSE Return(c, Deleted(c, FALSE))]
      /\ UNCHANGED <<storage, clock, nextId, ncalls, pre, host>>

\* delete: DELETE FROM ext_people_registry_persons WHERE id = ?; return true
SqlDelete(p) ==
  LET c == call[p]
  IN  /\ c.pc = "sql_delete"
      /\ StorageDelete(c.id)
      /\ call' = [call EXCEPT ![p] = Return(c, Deleted(c, TRUE))]
      /\ UNCHANGED <<clock, nextId, ncalls, pre, host>>

----------------------------------------------------------------------------
\* people_upsert (createUpsertTool.execute)

\* people_upsert as it would be if it took a name of spaces for a name:
\* C20_ToolNameRequired does not hold of it.
EnterToolUpsertNameUntrimmed(arg) ==
  IF arg.id = 0 /\ (~Truthy(arg.input.name) \/ ~IsString(Val(arg.input.name)))
  THEN Return(Enter("people_upsert", "done", arg),
              [NoResult EXCEPT !.error = "Name is required when not updating by ID"])
  ELSE IF arg.id # 0
       THEN Enter("people_upsert", "tool_get", arg)
       ELSE [Enter("people_upsert", "upsert_find", arg) EXCEPT
               !.input = ToolUpsertInput(arg)]

\* The checks made before the first repository call.
EnterToolUpsert(arg) ==
  IF arg.id = 0 /\ NameMissing(arg.input.name)
  THEN Return(Enter("people_upsert", "done", arg),
              [NoResult EXCEPT !.error = "Name is required when not updating by ID"])
  ELSE IF arg.id # 0
       THEN Enter("people_upsert", "tool_get", arg)
       ELSE [Enter("people_upsert", "upsert_find", arg) EXCEPT
               !.input = ToolUpsertInput(arg)]

StartToolUpsert(p, args) ==
  \E arg \in args : Begin(p, EnterToolUpsert(arg))

\* const existing = await repository.getById(id), then the merge of the metadata
ToolUpsertGet(p) ==
  LET c == call[p]
      existing == StorageGet(c.id)
      name == c.arg.input.name
  IN  /\ c.pc = "tool_get"
      /\ call' = [call EXCEPT ![p] =
           IF ~IsDef(existing)
           THEN Return(c, [NoResult EXCEPT !.error = "No person found with ID"])
           ELSE IF ~Nullish(name) /\ ~IsString(Val(name))
                THEN \* name?.trim() of a value that has no trim
                     Return(c, [NoResult EXCEPT !.error = "TypeError"])
                ELSE [c EXCEPT !.pc = "update_get",
                               !.input = ToolUpdateInput(c.arg,
                                                         documentToPerson(Val(existing)))]]
      /\ UNCHANGED <<storage, clock, nextId, ncalls, pre, host>>

----------------------------------------------------------------------------
\* people_list (createListTool.execute)

\* const { query, limit = 20 } = params
ToolDefaultLimit == 20
\* Math.min(limit, 100)
ToolMaxLimit == 100

\* people_list as it would be if it passed the limit on as given:
\* C19_ToolListLimitCapped does not hold of it.
EnterToolListNoCap(params) ==
  [Enter("people_list", "list", [NoArg EXCEPT !.options = params]) EXCEPT
     !.options = ListOptions([query |-> params.query,
                              limit |-> IF IsDef(params.limit) THEN params.limit
                                        ELSE Some(ToolDefaultLimit),
                              offset |-> None])]

\* repository.list({ query, limit: Math.min(limit, 100) })
EnterToolList(params) ==
  LET limit == IF IsDef(params.limit) THEN Val(params.limit) ELSE ToolDefaultLimit
  IN  [Enter("people_list", "list", [NoArg EXCEPT !.options = params]) EXCEPT
         !.options = ListOptions([query |-> params.query,
                                  limit |-> Some(Min(limit, ToolMaxLimit)),
                                  offset |-> None])]

StartToolList(p, paramss) ==
  \E params \in paramss : Begin(p, EnterToolList(params))

----------------------------------------------------------------------------
\* people_get (createGetTool.execute)

\* if (!id && !name) return the failure; if (id) getById(id) else
\* getByName(name), whose normalizeName(name) throws on a value with no
\* toLowerCase before any storage call is made.
EnterToolGet(arg) ==
  IF arg.id = 0 /\ ~Truthy(arg.input.name)
  THEN Return(Enter("people_get", "done", arg),
              [NoResult EXCEPT !.error = "Either id or name must be provided"])
  ELSE IF arg.id # 0 THEN Enter("people_get", "get", arg)
  ELSE IF ~IsString(Val(arg.input.name))
       THEN Return(Enter("people_get", "done", arg),
                   [NoResult EXCEPT !.error = "TypeError"])
       ELSE Enter("people_get", "find", arg)

StartToolGet(p, args) ==
  \E arg \in args : Begin(p, EnterToolGet(arg))

----------------------------------------------------------------------------
\* people_delete (createDeleteTool.execute)

\* people_delete as it would be if it resolved a call that gives a name by
\* the name: C32_ResolvedByIdOnly does not hold of it.
EnterToolDeleteByName(arg) ==
  IF arg.id = 0 /\ ~Truthy(arg.input.name)
  THEN Return(Enter("people_delete", "done", arg),
              [NoResult EXCEPT !.error = "Either id or name must be provided"])
  ELSE IF ~Truthy(arg.input.name) THEN Enter("people_delete", "delete_get", arg)
  ELSE IF ~IsString(Val(arg.input.name))
       THEN Return(Enter("people_delete", "done", arg),
                   [NoResult EXCEPT !.error = "TypeError"])
       ELSE Enter("people_delete", "delete_find", arg)

\* if (!id && !name) return the failure; if (id) delete(id) else
\* deleteByName(name)
EnterToolDelete(arg) ==
  IF arg.id = 0 /\ ~Truthy(arg.input.name)
  THEN Return(Enter("people_delete", "done", arg),
              [NoResult EXCEPT !.error = "Either id or name must be provided"])
  ELSE IF arg.id # 0 THEN Enter("people_delete", "delete_get", arg)
  ELSE IF ~IsString(Val(arg.input.name))
       THEN Return(Enter("people_delete", "done", arg),
                   [NoResult EXCEPT !.error = "TypeError"])
       ELSE Enter("people_delete", "delete_find", arg)

StartToolDelete(p, args) ==
  \E arg \in args : Begin(p, EnterToolDelete(arg))

----------------------------------------------------------------------------
\* Failures of the storage port

\* The message of the error a storage call is rejected with.
StorageError == "storage failure"

\* The places of a call at which a storage call is awaited.
Awaiting == {"get", "find", "list", "sql_list", "create", "update_get", "update_put",
             "upsert_find", "delete_get", "delete_find", "delete", "tool_get",
             "sql_table", "sql_index", "sql_insert", "sql_delete_get", "sql_delete"}

\* A tool as it would be without its catch block: C21_ToolsAlwaysReturn does
\* not hold of it.
FailedUncaught(c, error) == Throw(c, error)

\* Where the error of a rejected storage call ends up.  No method of the
\* repository catches it: each awaits the storage call, so the rejection
\* passes through update() and create() to upsert() and on to the caller.  A
\* tool catches it and returns { success: false, error: error.message }.
Failed(c, error) ==
  IF c.op \in Tools THEN Return(c, [NoResult EXCEPT !.error = error])
  ELSE Throw(c, error)

\* The repository as it would be if it took a rejected storage call for an
\* absent record: C22_StorageFailurePropagates does not hold of it.
FailAsAbsent(p) ==
  LET c == call[p]
  IN  /\ c.pc \in Awaiting
      /\ call' = [call EXCEPT ![p] = Return(c, NoResult)]
      /\ rejected' = rejected \cup {p}
      /\ UNCHANGED <<storage, clock, nextId, ncalls, pre, user, userStorage, initialized,
                     schema, first>>

\* The repository as it would be if it made a rejected storage call again:
\* C25_OperationsEnd does not hold of it.
FailRetried(p) ==
  LET c == call[p]
  IN  /\ c.pc \in Awaiting
      /\ rejected' = rejected \cup {p}
      /\ UNCHANGED <<storage, clock, nextId, ncalls, call, pre, user, userStorage,
                     initialized, schema, first>>

\* The storage call the caller is awaiting is rejected.  A rejected call has
\* changed nothing in the storage.
Fail(p) ==
  LET c == call[p]
  IN  /\ c.pc \in Awaiting
      /\ call' = [call EXCEPT ![p] = Failed(c, StorageError)]
      /\ rejected' = rejected \cup {p}
      /\ UNCHANGED <<storage, clock, nextId, ncalls, pre, user, userStorage, initialized,
                     schema, first>>

----------------------------------------------------------------------------
\* Execution contexts

\* The tools as they would be on one repository built at activation and shared
\* by all users: C26_UsersIsolated does not hold of them.
RepositoryStorageShared(p) == 1

\* The user on whose storage people_list, people_get and people_delete build
\* the repository of a call: new PeopleRepository(execContext.userStorage),
\* execContext being that of the caller, who acts for the user p.
RepositoryStorage(p) == p

\* The same for people_upsert, which the activation creates like the other
\* tools, without a repository of its own.
UpsertRepositoryStorage(p) == p

\* The storage of the call's repository is that of the context the host runs
\* in, so that the storage calls of the call go to `storage`.
InContext(p) ==
  user = IF call[p].op = "people_upsert" THEN UpsertRepositoryStorage(p)
         ELSE RepositoryStorage(p)

\* The records stored for a user.
UserStore(u) == IF u = user THEN storage ELSE userStorage[u]

\* The host goes on in the execution context of another user.
SwitchUser(u) ==
  /\ u # user
  /\ user' = u
  /\ storage' = userStorage[u]
  /\ userStorage' = [userStorage EXCEPT ![user] = storage]
  /\ UNCHANGED <<clock, nextId, ncalls, call, pre, rejected, initialized, schema, first>>

\* The clock advances.
Tick ==
  /\ clock < MaxClock
  /\ clock' = clock + 1
  /\ UNCHANGED <<storage, nextId, ncalls, call, pre, host>>

Init ==
  /\ storage = <<>>
  /\ clock = 0
  /\ nextId = 1
  /\ ncalls = 0
  /\ call = [p \in Procs \cup {Caller} |-> IdleCall]
  /\ pre = <<>>
  /\ rejected = {}
  /\ user = 1
  /\ userStorage = [u \in Users |-> <<>>]
  /\ initialized = FALSE
  /\ schema = {}
  /\ first = None

----------------------------------------------------------------------------
\* What the callers pass

NameA == <<"a">>
NameSpaceUpperA == <<" ", "A">>
NameEmpty == <<>>
NameSpace == <<" ">>

DescD == <<"d">>

MetaFriend ==
  [EmptyMetadata EXCEPT !.relationship = Some(<<"f">>), !.email = Some(<<"e">>),
                        !.nickname = Some(<<"n">>)]

ToolArgs(ids, names, descriptions, paramss) ==
  {[id |-> id, input |-> [name |-> name, description |-> description, metadata |-> None],
    options |-> NoOptions, params |-> params] :
     id \in ids, name \in names, description \in descriptions, params \in paramss}

\* One metadata field provided, the others omitted.
OneParam(k, v) == [NoParams EXCEPT ![k] = Some(v)]

\* A PersonInput carries a description, a metadata object, or neither.
PersonInputs(names) ==
  {[name |-> name, description |-> dm[1], metadata |-> dm[2]] :
     name \in names,
     dm \in {<<None, None>>, <<Some(DescD), None>>, <<None, Some(MetaFriend)>>}}

SeqNames == {NameA, NameSpaceUpperA, NameEmpty}
SeqCreateInputs == PersonInputs({Some(n) : n \in SeqNames})
SeqUpdateInputs == PersonInputs({None} \cup {Some(n) : n \in SeqNames})
SeqIds == 1..2

ToolNames == {None, Some(<<>>), Some(NameSpaceUpperA), Some(NameSpace), Some(NotAString)}
ToolParams ==
  {NoParams, OneParam("workplace", <<" ", "w">>), OneParam("email", <<" ">>)}
ToolSeqArgs == ToolArgs({0, 1}, ToolNames, {None}, ToolParams)
ToolCreateInputs ==
  {[name |-> Some(NameA), description |-> None, metadata |-> m] :
     m \in {None, Some(MetaFriend)}}

MetaWork == [EmptyMetadata EXCEPT !.workplace = Some(<<"w">>)]

\* update() inputs that give, clear or omit the description and the metadata.
PresenceInputs ==
  {[name |-> None, description |-> description, metadata |-> metadata] :
     description \in {None, Some(<<>>), Some(Null)},
     metadata \in {None, Some(EmptyMetadata), Some(MetaWork)}}
PresenceCreateInputs ==
  {[NoInput EXCEPT !.name = Some(NameA)],
   [name |-> Some(NameA), description |-> Some(DescD), metadata |-> Some(MetaFriend)]}

Maria == <<"M", "a", "r", "i", "a">>
Mark == <<"M", "a", "r", "k">>
Zoe == <<"Z", "o", "e">>
Al == <<"a", "l">>
\* The names of the people created, in the order of their creation.
ReadNames == <<Zoe, Mark, Al, Maria, Mark>>

\* The names at the positions `chosen`, from position i on.
RECURSIVE NamesAt(_, _)
NamesAt(chosen, i) ==
  IF i > Len(ReadNames) THEN <<>>
  ELSE (IF i \in chosen THEN <<ReadNames[i]>> ELSE <<>>) \o NamesAt(chosen, i + 1)

\* The store that create() calls of the given names leave, one after the other.
StoreOf(names) ==
  [i \in 1..Len(names) |-> CreateDoc(i, [NoInput EXCEPT !.name = Some(names[i])], 0)]

\* The stores that create() calls of some of the names leave.
ReadStores == {StoreOf(NamesAt(chosen, 1)) : chosen \in SUBSET (1..Len(ReadNames))}

QueryMar == <<"m", "a", "r">>
QueryMarPadded == <<" ", "M", "A", "R", " ">>
MariaPadded == <<" ", "M", "A", "R", "I", "A", " ">>

ListQueries ==
  {None, Some(<<>>), Some(QueryMar), Some(QueryMarPadded), Some(<<"a">>), Some(<<"_">>)}
ReadOptions ==
  {[query |-> query, limit |-> limit, offset |-> offset] :
     query \in ListQueries, limit \in {None, Some(1), Some(2), Some(101)},
     offset \in {None, Some(1)}}
ToolListParams ==
  {[query |-> query, limit |-> limit, offset |-> None] :
     query \in {None, Some(QueryMarPadded)},
     limit \in {None, Some(1), Some(100), Some(101)}}

RaceUpsertInputs == {[NoInput EXCEPT !.name = Some(n)] : n \in {NameA, NameSpaceUpperA}}
RaceUpdateInputs ==
  {[NoInput EXCEPT !.description = Some(DescD)],
   [NoInput EXCEPT !.metadata = Some(MetaFriend)]}
RaceIds == {1}

\* What is passed to the tools whose storage calls may be rejected.
FaultArgs == ToolArgs({0, 1}, {None, Some(NameA)}, {None}, {NoParams})
FaultListParams == {NoOptions}
FaultInputs == {[NoInput EXCEPT !.name = Some(NameA)]}

\* What the users pass to the tools.
UserArgs == ToolArgs({0, 1}, {Some(NameA)}, {None}, {NoParams})

\* What is passed to the operations that address a person by name.
NameKeyedInputs == {[NoInput EXCEPT !.name = Some(n)] : n \in SeqNames}
NameKeyedArgs ==
  ToolArgs({0}, {Some(NameA), Some(NameSpaceUpperA), Some(NameSpace)}, {None},
           {NoParams, OneParam("workplace", <<"w">>)})

\* The inputs of the upsert() calls that are repeated: the name of two stored
\* records, a name stored once and given in another spelling with a
\* description, and the empty name, which is not stored.
TwiceInputs ==
  {[NoInput EXCEPT !.name = Some(Mark)],
   [NoInput EXCEPT !.name = Some(MariaPadded), !.description = Some(DescD)],
   [NoInput EXCEPT !.name = Some(NameEmpty)]}

\* What is passed to the tools that take an id, a name or both: the id 2 is
\* that of no record while one person is stored.
ResolveArgs == ToolArgs({0, 2}, {None, Some(NameA)}, {None, Some(DescD)}, {NoParams})

----------------------------------------------------------------------------
\* Specifications

\* Concurrent callers: their storage calls interleave.
Next ==
  \/ \E p \in Procs :
       \/ StartUpdate(p, RaceIds, RaceUpdateInputs)
       \/ StartUpsert(p, RaceUpsertInputs)
       \/ StartDelete(p, RaceIds)
       \/ Create(p)
       \/ UpdateGet(p)
       \/ UpdatePut(p)
       \/ UpsertFind(p)
       \/ DeleteGet(p)
       \/ Delete(p)
  \/ Tick

Spec == Init /\ [][Next]_vars

\* Sequential execution: one caller, each call finishes before the next starts.
SeqNext ==
  \/ StartGetById(Caller, SeqIds)
  \/ StartGetByName(Caller, SeqNames)
  \/ StartCreate(Caller, SeqCreateInputs)
  \/ StartUpdate(Caller, {1}, SeqUpdateInputs)
  \/ StartUpsert(Caller, SeqCreateInputs)
  \/ StartDelete(Caller, SeqIds)
  \/ StartDeleteByName(Caller, SeqNames)
  \/ GetById(Caller)
  \/ GetByName(Caller)
  \/ Create(Caller)
  \/ UpdateGet(Caller)
  \/ UpdatePut(Caller)
  \/ UpsertFind(Caller)
  \/ DeleteGet(Caller)
  \/ DeleteFind(Caller)
  \/ Delete(Caller)
  \/ Tick

SeqSpec == Init /\ [][SeqNext]_vars

\* people_upsert called sequentially on records the repository has created.
ToolNext ==
  \/ StartCreate(Caller, ToolCreateInputs)
  \/ StartToolUpsert(Caller, ToolSeqArgs)
  \/ Create(Caller)
  \/ ToolUpsertGet(Caller)
  \/ UpdateGet(Caller)
  \/ UpdatePut(Caller)
  \/ UpsertFind(Caller)
  \/ Tick

ToolSpec == Init /\ [][ToolNext]_vars

\* people_upsert called sequentially, on the store it has filled itself.
BoundaryNext ==
  \/ StartToolUpsert(Caller, ToolSeqArgs)
  \/ Create(Caller)
  \/ ToolUpsertGet(Caller)
  \/ UpdateGet(Caller)
  \/ UpdatePut(Caller)
  \/ UpsertFind(Caller)
  \/ Tick

BoundarySpec == Init /\ [][BoundaryNext]_vars

\* update() called sequentially on stored, deleted and never stored ids.
UpdateNext ==
  \/ StartCreate(Caller, PresenceCreateInputs)
  \/ StartUpdate(Caller, SeqIds, PresenceInputs)
  \/ StartDelete(Caller, {1})
  \/ Create(Caller)
  \/ UpdateGet(Caller)
  \/ UpdatePut(Caller)
  \/ DeleteGet(Caller)
  \/ Delete(Caller)
  \/ Tick

UpdateSpec == Init /\ [][UpdateNext]_vars

\* The create() calls made before the first reading call, through an earlier
\* instance of the repository: some of ReadNames are created, one call after
\* the other, and the table and its index exist.
CreatePeople ==
  /\ ncalls = 0
  /\ storage = <<>>
  /\ nextId = 1
  /\ \E store \in ReadStores \ {<<>>} :
       /\ storage' = store
       /\ nextId' = Cardinality(DOMAIN store) + 1
  /\ schema' = {"table", "index"}
  /\ UNCHANGED <<clock, ncalls, call, pre, rejected, user, userStorage, initialized,
                 first>>

\* The reading operations, called sequentially on a store that create() calls
\* have left.  getById() is given the id of the first record created and the
\* id of no record, people_get an id, a name, both or neither.
ReadNext ==
  \/ StartList(Caller, ReadOptions)
  \/ StartSqlList(Caller, ReadOptions)
  \/ StartToolList(Caller, ToolListParams)
  \/ StartGetByName(Caller, {Maria, MariaPadded, QueryMar})
  \/ StartGetById(Caller, {1, Len(ReadNames) + 1})
  \/ StartToolGet(Caller, ToolArgs({0, 1}, {None, Some(Maria)}, {None}, {NoParams}))
  \/ List(Caller)
  \/ SqlCreateTable(Caller)
  \/ SqlCreateIndex(Caller)
  \/ SqlList(Caller)
  \/ GetByName(Caller)
  \/ GetById(Caller)
  \/ CreatePeople

ReadSpec == Init /\ [][ReadNext]_vars

\* The four tools called concurrently, on a storage port any call of which may
\* be rejected.
FaultNext ==
  \E p \in Procs :
    \/ StartToolList(p, FaultListParams)
    \/ StartToolGet(p, FaultArgs)
    \/ StartToolUpsert(p, FaultArgs)
    \/ StartToolDelete(p, FaultArgs)
    \/ List(p)
    \/ GetById(p)
    \/ GetByName(p)
    \/ ToolUpsertGet(p)
    \/ UpsertFind(p)
    \/ Create(p)
    \/ UpdateGet(p)
    \/ UpdatePut(p)
    \/ DeleteGet(p)
    \/ DeleteFind(p)
    \/ Delete(p)
    \/ Fail(p)

FaultSpec == Init /\ [][FaultNext]_vars

\* The repository called sequentially, on a storage port any call of which may
\* be rejected.
RepositoryFaultNext ==
  \/ StartGetById(Caller, {1})
  \/ StartGetByName(Caller, {NameA})
  \/ StartList(Caller, FaultListParams)
  \/ StartCreate(Caller, FaultInputs)
  \/ StartUpdate(Caller, {1}, RaceUpdateInputs)
  \/ StartUpsert(Caller, FaultInputs)
  \/ StartDelete(Caller, {1})
  \/ StartDeleteByName(Caller, {NameA})
  \/ GetById(Caller)
  \/ GetByName(Caller)
  \/ List(Caller)
  \/ Create(Caller)
  \/ UpdateGet(Caller)
  \/ UpdatePut(Caller)
  \/ UpsertFind(Caller)
  \/ DeleteGet(Caller)
  \/ DeleteFind(Caller)
  \/ Delete(Caller)
  \/ Fail(Caller)
  \/ Tick

RepositoryFaultSpec == Init /\ [][RepositoryFaultNext]_vars

\* The storage call the caller awaits completes or is rejected.
RepositoryStep ==
  \/ GetById(Caller)
  \/ GetByName(Caller)
  \/ List(Caller)
  \/ Create(Caller)
  \/ UpdateGet(Caller)
  \/ UpdatePut(Caller)
  \/ UpsertFind(Caller)
  \/ DeleteGet(Caller)
  \/ DeleteFind(Caller)
  \/ Delete(Caller)
  \/ Fail(Caller)

\* The repository called sequentially on a storage port every call of which
\* completes or is rejected in the end.
RepositoryFairSpec == RepositoryFaultSpec /\ WF_vars(RepositoryStep)

\* The four tools called by several users, each caller acting for a user of
\* its own; the calls interleave.
UserNext ==
  \/ \E p \in Procs :
       \/ StartToolList(p, FaultListParams)
       \/ StartToolGet(p, UserArgs)
       \/ StartToolUpsert(p, UserArgs)
       \/ StartToolDelete(p, UserArgs)
       \/ InContext(p) /\ List(p)
       \/ InContext(p) /\ GetById(p)
       \/ InContext(p) /\ GetByName(p)
       \/ InContext(p) /\ ToolUpsertGet(p)
       \/ InContext(p) /\ UpsertFind(p)
       \/ InContext(p) /\ Create(p)
       \/ InContext(p) /\ UpdateGet(p)
       \/ InContext(p) /\ UpdatePut(p)
       \/ InContext(p) /\ DeleteGet(p)
       \/ InContext(p) /\ DeleteFind(p)
       \/ InContext(p) /\ Delete(p)
  \/ \E u \in Users : SwitchUser(u)

UserSpec == Init /\ [][UserNext]_vars

\* upsert(), people_upsert without an id, delete() and deleteByName() called
\* sequentially from the empty store.
NameKeyedNext ==
  \/ StartUpsert(Caller, NameKeyedInputs)
  \/ StartToolUpsert(Caller, NameKeyedArgs)
  \/ StartDelete(Caller, SeqIds)
  \/ StartDeleteByName(Caller, SeqNames)
  \/ UpsertFind(Caller)
  \/ Create(Caller)
  \/ UpdateGet(Caller)
  \/ UpdatePut(Caller)
  \/ DeleteGet(Caller)
  \/ DeleteFind(Caller)
  \/ Delete(Caller)
  \/ Tick

NameKeyedSpec == Init /\ [][NameKeyedNext]_vars

\* The relational repository called concurrently, on a database any statement
\* of which may be rejected.
SqlNext ==
  \E p \in Procs :
    \/ StartSqlList(p, FaultListParams)
    \/ StartSqlCreate(p, FaultInputs)
    \/ StartSqlDelete(p, {1})
    \/ SqlCreateTable(p)
    \/ SqlCreateIndex(p)
    \/ SqlList(p)
    \/ SqlInsert(p)
    \/ SqlDeleteGet(p)
    \/ SqlDelete(p)
    \/ Fail(p)

SqlSpec == Init /\ [][SqlNext]_vars

\* upsert() called sequentially, once or twice in a row with one input, on a
\* store that create() calls have left.
TwiceNext ==
  \/ StartUpsert(Caller, TwiceInputs)
  \/ StartUpsertAgain(Caller)
  \/ UpsertFind(Caller)
  \/ Create(Caller)
  \/ UpdateGet(Caller)
  \/ UpdatePut(Caller)
  \/ Tick
  \/ CreatePeople

TwiceSpec == Init /\ [][TwiceNext]_vars

\* people_get, people_upsert and people_delete called sequentially with an id,
\* a name or both.
ResolveNext ==
  \/ StartToolGet(Caller, ResolveArgs)
  \/ StartToolUpsert(Caller, ResolveArgs)
  \/ StartToolDelete(Caller, ResolveArgs)
  \/ GetById(Caller)
  \/ GetByName(Caller)
  \/ ToolUpsertGet(Caller)
  \/ UpsertFind(Caller)
  \/ Create(Caller)
  \/ UpdateGet(Caller)
  \/ UpdatePut(Caller)
  \/ DeleteGet(Caller)
  \/ DeleteFind(Caller)
  \/ Delete(Caller)
  \/ Tick

ResolveSpec == Init /\ [][ResolveNext]_vars

----------------------------------------------------------------------------
\* Properties

StoredIds == DOMAIN storage

\* No two stored records share a normalizedName.
UniqueNormalizedNames(store) ==
  \A i, j \in DOMAIN store :
    store[i].normalizedName = store[j].normalizedName => i = j

\* Some record of `store` has the normalized form of `name` as its normalizedName.
NameStored(store, name) ==
  \E i \in DOMAIN store : store[i].normalizedName = normalizeName(name)

\* C1 as stated: in every reachable state at most one stored record has any
\* given normalizedName.
C1_UniqueNormalizedNames == UniqueNormalizedNames(storage)

\* The write Caller's call is about to make brings in a normalizedName that is
\* already stored: a create() of a stored name, or an update() that renames a
\* record to the name of another one.
CollidingWrite ==
  LET c == call[Caller]
  IN  \/ /\ c.op = "create"
         /\ c.pc = "create"
         /\ NameStored(storage, Val(c.input.name))
      \/ /\ c.op = "update"
         /\ c.pc = "update_put"
         /\ Truthy(c.input.name)
         /\ \E i \in StoredIds \ {c.id} :
              storage[i].normalizedName = normalizeName(Val(c.input.name))

\* C1 as amended: in sequential execution every step of every repository
\* operation keeps "at most one record per normalizedName", except the write of
\* a create() whose name is already stored and of an update() that renames a
\* record to the name of another one.
C1_UniqueKeptWithoutCollidingWrite ==
  [][(UniqueNormalizedNames(storage) /\ ~CollidingWrite)
       => UniqueNormalizedNames(storage')]_vars

\* An upsert() of a stored name has updated its record beside another record,
\* and the names are still unique.
C1_Witness ==
  LET c == call[Caller]
  IN  /\ c.op = "upsert"
      /\ c.pc = "done"
      /\ ~c.result.created
      /\ Cardinality(StoredIds) = 2
      /\ UniqueNormalizedNames(storage)

\* C2: an upsert() whose lookup found no record creates one when it resumes,
\* whatever has been stored in between: it returns created = true, and a new
\* record with the normalized name it looked up is added under a fresh id
\* beside all the stored ones.
C2_UpsertCreatesAfterNotFound ==
  [][\A p \in Procs :
       (call[p].op = "upsert" /\ call[p].pc = "create" /\ call'[p].pc = "done")
       => /\ call'[p].result.created
          /\ IsDef(call'[p].result.person)
          /\ LET person == Val(call'[p].result.person)
             IN  /\ person.id \notin DOMAIN storage
                 /\ DOMAIN storage' = DOMAIN storage \cup {person.id}
                 /\ storage'[person.id] = person
                 /\ person.normalizedName = normalizeName(Val(call[p].input.name))
                 /\ \A i \in DOMAIN storage : storage'[i] = storage[i]]_vars

\* Two concurrent upsert() calls of one name have both returned created = true,
\* and their two records share the normalizedName.
C2_Witness ==
  \E p, q \in Procs :
    /\ p # q
    /\ \A r \in {p, q} :
         call[r].op = "upsert" /\ call[r].pc = "done" /\ call[r].result.created
    /\ LET a == Val(call[p].result.person)
           b == Val(call[q].result.person)
       IN  /\ a.id # b.id
           /\ {a.id, b.id} \subseteq StoredIds
           /\ storage[a.id].normalizedName = storage[b.id].normalizedName
           /\ ~UniqueNormalizedNames(storage)

\* C3: every stored record satisfies normalizedName = lowercase(trim(name)).
C3_NormalizedNameConsistent ==
  \A i \in StoredIds : storage[i].normalizedName = normalizeName(storage[i].name)

\* C4: an upsert() of a name whose normalized form is stored returns
\* created = false and a record that keeps the id and createdAt of a stored
\* record of that normalized name; that record is what is now stored under the
\* id, and no record has been added or removed.
C4_UpsertExistingInPlace ==
  LET c == call[Caller]
  IN  (c.op = "upsert" /\ c.pc = "done" /\ NameStored(pre, Val(c.arg.input.name)))
      => /\ ~c.result.created
         /\ IsDef(c.result.person)
         /\ LET person == Val(c.result.person)
            IN  /\ person.id \in DOMAIN pre
                /\ pre[person.id].normalizedName = normalizeName(Val(c.arg.input.name))
                /\ person.createdAt = pre[person.id].createdAt
                /\ storage[person.id] = person
                /\ DOMAIN storage = DOMAIN pre
                /\ Cardinality(DOMAIN storage) = Cardinality(DOMAIN pre)

\* An upsert() has matched a record whose name differs from the given one in
\* case and whitespace, at a later time than the record was created.
C4_Witness ==
  LET c == call[Caller]
  IN  /\ c.op = "upsert"
      /\ c.pc = "done"
      /\ ~c.result.created
      /\ NameStored(pre, Val(c.arg.input.name))
      /\ \A i \in DOMAIN pre : pre[i].name # Val(c.arg.input.name)
      /\ Val(c.result.person).updatedAt > Val(c.result.person).createdAt

\* The value of field k of an optional metadata object.
MetadataField(metadata, k) == IF IsDef(metadata) THEN Val(metadata)[k] ELSE None

\* people_upsert has updated an existing person.
ToolUpdated(c) ==
  /\ c.op = "people_upsert"
  /\ c.pc = "done"
  /\ c.result.ok
  /\ ~c.result.created

\* C5: when people_upsert updates an existing person, by id or by name, every
\* recognized field the request omits and every unrecognized key keeps its
\* stored value, and every field supplied as a non-blank string is set to its
\* trimmed value.
C5_ToolMergeKeepsOmittedFields ==
  LET c == call[Caller]
  IN  ToolUpdated(c)
      => LET id == Val(c.result.person).id
         IN  \A k \in MetaKeys :
               /\ (k \notin Recognized \/ ~IsDef(c.arg.params[k]))
                  => MetadataField(storage[id].metadata, k)
                       = MetadataField(pre[id].metadata, k)
               /\ (k \in Recognized /\ IsDef(c.arg.params[k])
                     /\ trim(Val(c.arg.params[k])) # <<>>)
                  => MetadataField(storage[id].metadata, k)
                       = Some(trim(Val(c.arg.params[k])))

\* C6: when people_upsert updates an existing person, by id or by name, a
\* recognized field supplied as an empty or whitespace-only string is cleared,
\* and every other metadata field keeps its stored value.
C6_ToolBlankClearsField ==
  LET c == call[Caller]
  IN  ToolUpdated(c)
      => LET id == Val(c.result.person).id
         IN  \A k \in Recognized :
               (IsDef(c.arg.params[k]) /\ trim(Val(c.arg.params[k])) = <<>>)
               => /\ MetadataField(storage[id].metadata, k) = None
                  /\ \A j \in MetaKeys \ {k} :
                       ~(j \in Recognized /\ IsDef(c.arg.params[j]))
                       => MetadataField(storage[id].metadata, j)
                            = MetadataField(pre[id].metadata, j)

\* C7: the write of an update() carries, for every field its input omits, the
\* value the call read at its start, whatever is stored by the time of the
\* write; the call returns the record it wrote.  A change another update() made
\* to such a field between the read and the write is thereby overwritten.
C7_UpdateWritesFromItsRead ==
  [][\A p \in Procs :
       (call[p].op = "update" /\ call[p].pc = "update_put" /\ call'[p].pc = "done")
       => LET c == call[p]
              read == Val(c.existing)
              written == storage'[c.id]
          IN  /\ call'[p].result.person = Some(written)
              /\ ~IsDef(c.input.description) => written.description = read.description
              /\ ~IsDef(c.input.metadata) => written.metadata = read.metadata]_vars

\* Two concurrent update() calls on one id, one changing only the description
\* and one only the metadata, have both returned a record; the stored record is
\* the one the description call wrote last, and the metadata the other call
\* returned is not stored.
C7_Witness ==
  \E p, q \in Procs :
    /\ p # q
    /\ \A r \in {p, q} :
         call[r].op = "update" /\ call[r].pc = "done" /\ IsDef(call[r].result.person)
    /\ call[p].arg.id = call[q].arg.id
    /\ IsDef(call[p].arg.input.description) /\ ~IsDef(call[p].arg.input.metadata)
    /\ IsDef(call[q].arg.input.metadata) /\ ~IsDef(call[q].arg.input.description)
    /\ call[p].arg.id \in StoredIds
    /\ storage[call[p].arg.id] = Val(call[p].result.person)
    /\ Val(call[q].result.person).metadata = call[q].arg.input.metadata
    /\ storage[call[p].arg.id].metadata # call[q].arg.input.metadata

\* C8: delete(id) of a stored id returns true and leaves no record under the
\* id, so that getById(id) returns absent; delete(id) of an absent id returns
\* false, raises no error and leaves the store as it was.
C8_DeleteThenAbsent ==
  LET c == call[Caller]
  IN  (c.op = "delete" /\ c.pc = "done")
      => /\ c.result.error = ""
         /\ c.result.ok = (c.arg.id \in DOMAIN pre)
         /\ StorageGet(c.arg.id) = None
         /\ c.arg.id \notin DOMAIN pre => storage = pre
         /\ \A i \in DOMAIN pre \ {c.arg.id} : i \in StoredIds /\ storage[i] = pre[i]

\* A delete(id) has returned true and removed one of two stored records.
C8_Witness ==
  LET c == call[Caller]
  IN  /\ c.op = "delete"
      /\ c.pc = "done"
      /\ c.result.ok
      /\ c.arg.id \in DOMAIN pre
      /\ Cardinality(DOMAIN pre) = 2
      /\ Cardinality(StoredIds) = 1

\* What create(input) leaves behind: one record under an id that was not stored,
\* with the name, description and metadata of the input, returned as the
\* person, beside the unchanged records of `pre`.
CreateEffect(c) ==
  /\ c.result.created
  /\ IsDef(c.result.person)
  /\ LET person == Val(c.result.person)
     IN  /\ person.id \notin DOMAIN pre
         /\ DOMAIN storage = DOMAIN pre \cup {person.id}
         /\ storage[person.id] = person
         /\ person.name = Val(c.arg.input.name)
         /\ person.normalizedName = normalizeName(Val(c.arg.input.name))
         /\ person.description = c.arg.input.description
         /\ person.metadata = c.arg.input.metadata
         /\ person.createdAt = person.updatedAt
         /\ \A i \in DOMAIN pre : storage[i] = pre[i]

\* C9: an upsert() of a name whose normalized form is not stored returns
\* created = true and has the effect of create() with the same input.
C9_UpsertNewActsAsCreate ==
  LET c == call[Caller]
  IN  /\ (c.op = "upsert" /\ c.pc = "done" /\ ~NameStored(pre, Val(c.arg.input.name)))
         => CreateEffect(c)
      /\ (c.op = "create" /\ c.pc = "done") => CreateEffect(c)

\* An upsert() carrying metadata has created a record beside a stored one.
C9_Witness ==
  LET c == call[Caller]
  IN  /\ c.op = "upsert"
      /\ c.pc = "done"
      /\ c.result.created
      /\ IsDef(c.arg.input.metadata)
      /\ Cardinality(DOMAIN pre) = 1
      /\ Cardinality(StoredIds) = 2

\* C10: create(input) returns a record r that getById(r.id) finds stored,
\* equal to r, and r.updatedAt = r.createdAt.
C10_CreateThenGetById ==
  LET c == call[Caller]
  IN  (c.op = "create" /\ c.pc = "done")
      => /\ IsDef(c.result.person)
         /\ LET r == Val(c.result.person)
            IN  /\ IsDef(StorageGet(r.id))
                /\ documentToPerson(Val(StorageGet(r.id))) = r
                /\ r.updatedAt = r.createdAt

\* A create() has returned at a time after the clock has advanced.
C10_Witness ==
  LET c == call[Caller]
  IN  /\ c.op = "create"
      /\ c.pc = "done"
      /\ IsDef(c.result.person)
      /\ Val(c.result.person).createdAt > 0
      /\ IsDef(c.arg.input.description)

\* C11: a step that is not the storage.delete of delete() or deleteByName() on
\* a record's id leaves a record stored under that id, with that id as its id
\* and with the createdAt it had; every stored record has its key as its id.
C11_IdAndCreatedAtKept ==
  [][/\ \A i \in DOMAIN storage' : storage'[i].id = i
     /\ \A i \in DOMAIN storage :
          \/ /\ i \in DOMAIN storage'
             /\ storage'[i].createdAt = storage[i].createdAt
          \/ /\ call[Caller].op \in {"delete", "deleteByName"}
             /\ call[Caller].pc = "delete"
             /\ call[Caller].id = i]_vars

\* A record that an update() or upsert() had changed before has now been
\* changed by an upsert(), later than it was created, and has its createdAt.
C11_Witness ==
  LET c == call[Caller]
  IN  /\ c.op = "upsert"
      /\ c.pc = "done"
      /\ ~c.result.created
      /\ LET id == Val(c.result.person).id
         IN  /\ storage[id].id = id
             /\ pre[id].createdAt < pre[id].updatedAt
             /\ storage[id] # pre[id]
             /\ storage[id].createdAt = pre[id].createdAt

\* C12: at every step, of concurrent callers too, every stored record has
\* createdAt <= updatedAt, and the write of an update() stores the reading of
\* the clock at that write as updatedAt and returns it.
C12_TimestampsOrdered ==
  [][/\ \A i \in DOMAIN storage' : storage'[i].createdAt <= storage'[i].updatedAt
     /\ \A p \in Procs :
          (call[p].pc = "update_put" /\ call'[p].pc = "done")
          => /\ storage'[call[p].id].updatedAt = clock
             /\ Val(call'[p].result.person).updatedAt = clock]_vars

\* An update() running beside another call has written a record later than
\* the record was created.
C12_Witness ==
  \E p, q \in Procs :
    /\ p # q
    /\ call[p].op = "update"
    /\ call[p].pc = "done"
    /\ IsDef(call[p].result.person)
    /\ call[q].pc \notin {"idle", "done"}
    /\ call[p].id \in StoredIds
    /\ storage[call[p].id].createdAt < storage[call[p].id].updatedAt
    /\ storage[call[p].id] = Val(call[p].result.person)

\* C13: update(id, input) on a stored id stores the description of the input
\* when the input has one, the empty string and null included, and the stored
\* description otherwise; likewise the metadata, where the metadata object of
\* the input is stored as it is, with no key of the stored object kept; the
\* stored record is returned.
C13_UpdateReplacesByPresence ==
  LET c == call[Caller]
  IN  (c.op = "update" /\ c.pc = "done" /\ c.arg.id \in DOMAIN pre)
      => /\ c.arg.id \in StoredIds
         /\ c.result.person = Some(storage[c.arg.id])
         /\ LET input == c.arg.input
                old == pre[c.arg.id]
                new == storage[c.arg.id]
            IN  /\ new.description = IF IsDef(input.description) THEN input.description
                                     ELSE old.description
                /\ new.metadata = IF IsDef(input.metadata) THEN input.metadata
                                  ELSE old.metadata
                /\ IsDef(input.metadata)
                   => \A k \in MetaKeys :
                        MetadataField(new.metadata, k) = MetadataField(input.metadata, k)

\* An update() has cleared a description with the empty string and replaced a
\* metadata object, and a key of the replaced object is gone.
C13_Witness ==
  LET c == call[Caller]
  IN  /\ c.op = "update"
      /\ c.pc = "done"
      /\ c.arg.id \in DOMAIN pre
      /\ pre[c.arg.id].description = Some(DescD)
      /\ c.arg.input.description = Some(<<>>)
      /\ storage[c.arg.id].description = Some(<<>>)
      /\ c.arg.input.metadata = Some(MetaWork)
      /\ IsDef(MetadataField(pre[c.arg.id].metadata, "email"))
      /\ ~IsDef(MetadataField(storage[c.arg.id].metadata, "email"))

\* C14: update(id, input) on an id with no stored record makes its read and
\* no write, returns null without an error, and leaves the store as it was.
C14_UpdateAbsentNoWrite ==
  LET c == call[Caller]
  IN  (c.op = "update" /\ c.arg.id \notin DOMAIN pre)
      => /\ c.pc \in {"update_get", "done"}
         /\ storage = pre
         /\ c.pc = "done"
            => /\ c.result.person = None
               /\ ~c.result.ok
               /\ c.result.error = ""

\* An update() of an id whose record has been deleted has returned null beside
\* a stored record.
C14_Witness ==
  LET c == call[Caller]
  IN  /\ c.op = "update"
      /\ c.pc = "done"
      /\ c.arg.id \notin DOMAIN pre
      /\ c.arg.id < nextId
      /\ IsDef(c.arg.input.description)
      /\ c.result.person = None

\* The ids of the people a list call has returned, in their order.
ListedIds(c) == [k \in DOMAIN c.result.people |-> c.result.people[k].id]

\* The arrangements of the stored records `ids` in which no record comes
\* before one whose name is less than its own.
InNameOrder(ids) ==
  {f \in [1..Cardinality(ids) -> ids] :
     /\ \A i, j \in DOMAIN f : f[i] = f[j] => i = j
     /\ \A i, j \in DOMAIN f :
          i < j => ~StrLess(storage[f[j]].name, storage[f[i]].name)}

\* The limit and the offset list(options) is to go by.
GivenLimit(c) == IF IsDef(c.arg.options.limit) THEN Val(c.arg.options.limit) ELSE 50
GivenOffset(c) == IF IsDef(c.arg.options.offset) THEN Val(c.arg.options.offset) ELSE 0

C16_ListWithoutQuery ==
  LET c == call[Caller]
  IN  (c.op \in {"list", "sql_list"} /\ c.pc = "done" /\ ~IsDef(c.arg.options.query))
      => /\ c.result.ok
         /\ c.result.error = ""
         /\ ListedIds(c) \in {Slice(f, GivenOffset(c), GivenLimit(c)) :
                                f \in InNameOrder(StoredIds)}
         /\ \A k \in DOMAIN c.result.people :
              c.result.people[k] = storage[c.result.people[k].id]
         /\ StoredIds = {} => c.result.people = <<>>

\* list() with no options has returned all of at least three stored people,
\* the name with a capital Z before the name in small letters.
C16_Witness ==
  LET c == call[Caller]
  IN  /\ c.op = "list"
      /\ c.pc = "done"
      /\ c.arg.options = NoOptions
      /\ Len(c.result.people) = Cardinality(StoredIds)
      /\ Len(c.result.people) >= 3
      /\ c.result.people[Len(c.result.people) - 1].name = Zoe
      /\ c.result.people[Len(c.result.people)].name = Al

\* C17: getByName(name) returns a record exactly when some stored record has
\* lowercase(trim(name)) as its normalizedName, and then a stored record with
\* that normalizedName; a name that is a proper part of a stored name, and of
\* no other, gets no record.
C17_GetByNameExactNormalized ==
  LET c == call[Caller]
  IN  (c.op = "getByName" /\ c.pc = "done")
      => /\ IsDef(c.result.person) <=> NameStored(storage, Val(c.arg.input.name))
         /\ IsDef(c.result.person)
            => LET person == Val(c.result.person)
               IN  /\ person.id \in StoredIds
                   /\ storage[person.id] = person
                   /\ person.normalizedName = normalizeName(Val(c.arg.input.name))

\* getByName of a name in capitals with spaces around it has returned the
\* person stored under that name in another spelling.
C17_Witness ==
  LET c == call[Caller]
  IN  /\ c.op = "getByName"
      /\ c.pc = "done"
      /\ c.arg.input.name = Some(MariaPadded)
      /\ IsDef(c.result.person)
      /\ Val(c.result.person).name = Maria
      /\ Cardinality(StoredIds) > 1

\* C19: people_list passes min(limit, 100) to the repository as the limit, 20
\* when no limit is given; it returns at most that many people, so at most
\* 100; the repository's list goes by the limit it is given, whatever it is.
C19_ToolListLimitCapped ==
  LET c == call[Caller]
      given == c.arg.options.limit
  IN  /\ c.op = "people_list"
         => /\ c.options.limit = Some(IF IsDef(given) THEN Min(Val(given), 100) ELSE 20)
            /\ Val(c.options.limit) <= 100
            /\ c.pc = "done"
               => /\ c.result.ok
                  /\ Len(c.result.people) <= Val(c.options.limit)
                  /\ Len(c.result.people) <= 100
      /\ (c.op = "list" /\ IsDef(given)) => c.options.limit = given

\* people_list has been called with a limit above 100 and has listed the
\* stored people with the limit 100.
C19_Witness ==
  LET c == call[Caller]
  IN  /\ c.op = "people_list"
      /\ c.pc = "done"
      /\ c.arg.options.limit = Some(101)
      /\ c.options.limit = Some(100)
      /\ Len(c.result.people) > 1

\* C18: every record stored through people_upsert has a name that is not
\* empty once trimmed.
C18_ToolNamesNonEmpty == \A i \in StoredIds : trim(storage[i].name) # <<>>

\* The value is a string of spaces only, the empty string included.
Blank(v) == IsString(v) /\ \A i \in DOMAIN v : v[i] = " "

\* C20: people_upsert without an id and with a name that is missing, null, no
\* string, empty or of spaces only returns a failure with an error string
\* without making a repository call, and the store is as it was.
C20_ToolNameRequired ==
  LET c == call[Caller]
      name == c.arg.input.name
  IN  (/\ c.op = "people_upsert"
       /\ c.arg.id = 0
       /\ ~IsDef(name) \/ Val(name) = Null \/ ~IsString(Val(name)) \/ Blank(Val(name)))
      => /\ c.pc = "done"
         /\ ~c.result.ok
         /\ c.result.error # ""
         /\ c.result.person = None
         /\ storage = pre

\* people_upsert has refused a name of spaces while a person was stored.
C20_Witness ==
  LET c == call[Caller]
  IN  /\ c.op = "people_upsert"
      /\ c.pc = "done"
      /\ c.arg.id = 0
      /\ c.arg.input.name = Some(NameSpace)
      /\ ~c.result.ok
      /\ StoredIds # {}
      /\ storage = pre

\* C21: a call of people_list, people_get, people_upsert or people_delete never
\* ends with an exception: once it has ended it has returned either a success
\* with its data or a failure with an error string, whichever storage call was
\* rejected and however the calls interleave.
C21_ToolsAlwaysReturn ==
  \A p \in Procs :
    LET c == call[p]
    IN  c.op \in Tools =>
          /\ c.pc # "thrown"
          /\ c.pc = "done" =>
                \/ /\ c.result.ok
                   /\ c.result.error = ""
                   /\ c.op \in {"people_get", "people_upsert"} => IsDef(c.result.person)
                \/ /\ ~c.result.ok
                   /\ c.result.error # ""

\* people_upsert by id has read the record, the write of its update() has been
\* rejected and the tool has returned the failure.
C21_Witness ==
  \E p \in Procs :
    LET c == call[p]
    IN  /\ c.op = "people_upsert"
        /\ c.pc = "done"
        /\ p \in rejected
        /\ IsDef(c.existing)
        /\ c.result.error = StorageError

\* C22: when a storage call of a repository operation is rejected, the
\* operation ends with that same error in that step and the store is as it
\* was, also when the rejected call is the write of create, update or delete;
\* and an operation that has ended so makes no further step: nothing is retried
\* and no other storage call follows.
C22_StorageFailurePropagates ==
  [][LET c == call[Caller]
         d == call'[Caller]
     IN  /\ (Caller \notin rejected /\ Caller \in rejected') =>
               /\ c.pc \in Awaiting
               /\ d = Throw(c, StorageError)
               /\ storage' = storage
         /\ c.pc = "thrown" =>
               /\ storage' = storage
               /\ d = c \/ ncalls' = ncalls + 1]_vars

\* upsert() has found the name and read the record, the write of its update()
\* has been rejected, and upsert() has ended with the error, the record as it
\* was.
C22_Witness ==
  LET c == call[Caller]
  IN  /\ c.op = "upsert"
      /\ c.pc = "thrown"
      /\ Caller \in rejected
      /\ IsDef(c.existing)
      /\ c.result.error = StorageError
      /\ c.id \in StoredIds
      /\ storage = pre

\* The call is at a lookup by id or by name that finds no record: getById,
\* getByName, or the storage.delete of an id.
LooksUpAbsent(c) ==
  \/ /\ c.pc \in {"get", "tool_get", "update_get", "delete_get", "delete"}
     /\ c.id \notin StoredIds
  \/ /\ c.pc \in {"find", "delete_find"}
     /\ ~NameStored(storage, normalizeName(Val(c.input.name)))

\* C23: when a lookup made by people_get, people_delete or people_upsert by id
\* finds no record, the tool returns a failure whose error is 'No person found
\* with ...' and the store is as it was; when a lookup made by a repository
\* operation finds no record, the operation returns absent or false and throws
\* nothing.
C23_NotFoundAtToolBoundary ==
  [][\A p \in Procs \cup {Caller} :
       LET c == call[p]
           d == call'[p]
       IN  (d # c /\ p \notin rejected' /\ LooksUpAbsent(c)) =>
             /\ d.pc = "done"
             /\ ~d.result.ok
             /\ d.result.person = None
             /\ storage' = storage
             /\ IF c.op \in {"people_get", "people_delete"}
                     \/ (c.op = "people_upsert" /\ c.arg.id # 0)
                THEN d.result.error \in {"No person found with ID",
                                         "No person found with name"}
                ELSE c.op \in {"getById", "getByName", "update", "delete",
                               "deleteByName"} => d.result.error = ""]_vars

\* C24: the relational repository answers as the document store repository
\* does: what its list returns on a store is what the list of the document
\* store repository may return on that store for the same options.
C24_SqlListAsDocumentList ==
  LET c == call[Caller]
      query == c.options.query
      filter == IF Truthy(query) THEN Some(normalizeName(Val(query))) ELSE None
  IN  (c.op = "sql_list" /\ c.pc = "done") =>
        c.result.people \in
          {[k \in DOMAIN docs |-> documentToPerson(docs[k])] :
             docs \in StorageFind(filter, "name", Val(c.options.limit),
                                  Val(c.options.offset))}

\* The greatest number of storage calls an operation still makes from a place.
StorageCallsLeft(pc) ==
  CASE pc \in {"upsert_find", "tool_get"} -> 3
    [] pc \in {"update_get", "delete_get", "delete_find"} -> 2
    [] pc \in {"get", "find", "list", "create", "update_put", "delete"} -> 1
    [] OTHER -> 0

\* C25: every storage call a repository operation makes, completed or
\* rejected, brings the operation to a place from which fewer storage calls
\* are left, three at most at the start (upsert of a stored name), none once
\* it has ended: nothing loops and nothing is retried; and when every storage
\* call completes or is rejected in the end, every operation ends in the end.
C25_OperationsEnd ==
  /\ [][LET c == call[Caller]
            d == call'[Caller]
        IN  /\ StorageCallsLeft(d.pc) <= 3
            /\ (c.pc \in Awaiting /\ (d # c \/ rejected' # rejected)) =>
                  StorageCallsLeft(d.pc) < StorageCallsLeft(c.pc)
            /\ StorageCallsLeft(d.pc) = 0 <=> d.pc \in {"idle", "done", "thrown"}]_vars
  /\ (call[Caller].pc \in Awaiting) ~> (call[Caller].pc \in {"done", "thrown"})

\* upsert() of a stored name has ended after its three storage calls: the
\* findOne of getByName, the get and the put of update.
C25_Witness ==
  LET c == call[Caller]
  IN  /\ c.op = "upsert"
      /\ c.pc = "done"
      /\ Caller \notin rejected
      /\ IsDef(c.existing)
      /\ ~c.result.created
      /\ IsDef(c.result.person)
      /\ storage # pre

C27_NameKeyedUnique ==
  \A i, j \in StoredIds :
    storage[i].normalizedName = storage[j].normalizedName => i = j

\* Two people are stored, one under the empty name, and a people_upsert of
\* ' A' has updated the person 'a' and created nobody.
C27_Witness ==
  LET c == call[Caller]
  IN  /\ c.op = "people_upsert"
      /\ c.pc = "done"
      /\ c.arg.input.name = Some(NameSpaceUpperA)
      /\ c.result.ok
      /\ ~c.result.created
      /\ Cardinality(StoredIds) = 2
      /\ \E i \in StoredIds : storage[i].normalizedName = <<>>

\* deleteByName(name) has returned true.
DeletedOneByName(c) ==
  /\ c.op = "deleteByName"
  /\ c.pc = "done"
  /\ c.result.ok

\* The store is the store the call started on without one of its records.
RemovedOne ==
  /\ DOMAIN storage \subseteq DOMAIN pre
  /\ Cardinality(DOMAIN pre \ DOMAIN storage) = 1
  /\ \A i \in DOMAIN storage : storage[i] = pre[i]

\* C28: in sequential execution, when deleteByName(name) has returned true, a
\* getByName(name) called next finds no record, and exactly one record has
\* been removed.
C28_DeleteByNameThenAbsent ==
  LET c == call[Caller]
  IN  DeletedOneByName(c) =>
        /\ StorageFindOne(normalizeName(Val(c.input.name))) = {None}
        /\ RemovedOne

\* C28 as amended: exactly one record has been removed, and a getByName(name)
\* called next finds no record when one record at most had the normalized
\* name before the call.
C28_DeleteByNameOfSingleName ==
  LET c == call[Caller]
      normalizedName == normalizeName(Val(c.input.name))
  IN  DeletedOneByName(c) =>
        /\ RemovedOne
        /\ Cardinality({i \in DOMAIN pre : pre[i].normalizedName = normalizedName}) <= 1
             => StorageFindOne(normalizedName) = {None}

\* deleteByName(' A') has removed the person 'a' and left the person of
\* another name.
C28_Witness ==
  LET c == call[Caller]
  IN  /\ DeletedOneByName(c)
      /\ c.input.name = Some(NameSpaceUpperA)
      /\ Cardinality(DOMAIN pre) = 2
      /\ Cardinality(StoredIds) = 1
      /\ ~NameStored(storage, NameA)

\* C29: when a delete(id) has returned true, no record is stored under that
\* id, whatever calls were in flight when it deleted.
C29_DeletedStaysDeleted ==
  \A p \in Procs :
    LET c == call[p]
    IN  (c.op = "delete" /\ c.pc = "done" /\ c.result.ok) => c.arg.id \notin StoredIds

\* C30: an upsert() that has ended without a storage failure, whatever the
\* deletes that ran beside it, has returned a person, and when it has returned
\* created = false it has written the record of the returned person's id.
C30_UpsertReturnsPerson ==
  \A p \in Procs :
    LET c == call[p]
    IN  (c.op = "upsert" /\ c.pc = "done") =>
          /\ IsDef(c.result.person)
          /\ ~c.result.created =>
                /\ IsDef(c.existing)
                /\ Val(c.result.person).id = Val(c.existing).id

\* C31: of the delete(id) calls made on a stored record, of either
\* repository, one at most returns true.
C31_OneDeleteReturnsTrue ==
  \A op \in {"delete", "sql_delete"} :
    \A p, q \in Procs :
      LET c == call[p]
          d == call[q]
      IN  (/\ c.op = op /\ c.pc = "done" /\ c.result.ok
           /\ d.op = op /\ d.pc = "done" /\ d.result.ok
           /\ c.arg.id = d.arg.id) => p = q

\* C32: a call of people_get, people_delete or people_upsert that gives an id
\* and a name is resolved by the id alone.  When no record has the id and a
\* record has the name, the call makes the lookup by id and no other storage
\* call, returns the failure 'No person found with ID' without a person, and
\* the store is as it was.
C32_ResolvedByIdOnly ==
  LET c == call[Caller]
  IN  (/\ c.op \in {"people_get", "people_delete", "people_upsert"}
       /\ c.arg.id # 0
       /\ Truthy(c.arg.input.name)
       /\ c.arg.id \notin DOMAIN pre
       /\ NameStored(pre, Val(c.arg.input.name)))
      => /\ c.pc \in {"get", "delete_get", "tool_get", "done"}
         /\ storage = pre
         /\ c.pc = "done" =>
               /\ ~c.result.ok
               /\ c.result.error = "No person found with ID"
               /\ c.result.person = None

\* people_delete has been called with the id of no record and the name of the
\* stored person, and has failed; the person is still stored.
C32_Witness ==
  LET c == call[Caller]
  IN  /\ c.op = "people_delete"
      /\ c.pc = "done"
      /\ c.arg.id = 2
      /\ c.arg.input.name = Some(NameA)
      /\ NameStored(storage, NameA)
      /\ c.result.error = "No person found with ID"

\* The reading operations of the repository and of the tools.
ReadOps == {"list", "getById", "getByName", "people_list", "people_get"}

\* C33: list, getById and getByName, and with them people_list and
\* people_get, never write: no step of a call of one of them changes the
\* stored records, and when the call has ended the store is the store the
\* call began with.
C33_ReadsNeverWrite ==
  [][LET c == call[Caller]
         next == call'[Caller]
     IN  /\ (c.op \in ReadOps /\ c.pc \notin {"idle", "done", "thrown"})
               => storage' = storage
         /\ (next.op \in ReadOps /\ next.pc = "done") => storage' = pre']_vars

\* getById has returned a stored person, and the store is as it was.
C33_Witness ==
  LET c == call[Caller]
  IN  /\ c.op = "getById"
      /\ c.pc = "done"
      /\ IsDef(c.result.person)
      /\ c.arg.id \in DOMAIN storage
      /\ storage = pre

\* The ids whose record a step adds, removes or changes.
Changed ==
  {i \in DOMAIN storage \cup DOMAIN storage' :
     \/ i \notin DOMAIN storage
     \/ i \notin DOMAIN storage'
     \/ storage[i] # storage'[i]}

\* C34: each mutating repository operation changes at most one record: no
\* step of update(id) or delete(id) changes the record of another id, and the
\* step of create() that stores adds exactly one record, under an id that no
\* record had, and changes no record that was stored.
C34_OneRecordChanged ==
  [][LET c == call[Caller]
     IN  /\ c.op \in {"update", "delete"} => Changed \subseteq {c.arg.id}
         /\ c.op = "create" =>
               IF c.pc = "create" /\ call'[Caller].pc = "done"
               THEN /\ Cardinality(Changed) = 1
                    /\ Changed \cap DOMAIN storage = {}
                    /\ Changed \subseteq DOMAIN storage'
               ELSE Changed = {}]_vars

\* update(1) has changed the record of id 1 while another record was stored:
\* the other record is as it was, and so is the set of ids.
C34_Witness ==
  LET c == call[Caller]
  IN  /\ c.op = "update"
      /\ c.pc = "done"
      /\ c.arg.id = 1
      /\ DOMAIN pre = {1, 2}
      /\ DOMAIN storage = {1, 2}
      /\ storage[1] # pre[1]
      /\ storage[2] = pre[2]

\* Where a call of the relational repository is about to issue a schema
\* statement, and where a data statement.
SchemaPcs == {"sql_table", "sql_index"}
DataPcs == {"sql_list", "sql_insert", "sql_delete_get", "sql_delete"}

\* C35: in the relational repository a call comes to issue a data statement
\* only when CREATE TABLE IF NOT EXISTS and CREATE INDEX IF NOT EXISTS have
\* completed, however concurrent first calls interleave; a call that starts
\* when initialize has completed issues no schema statement; a call whose
\* schema statement is rejected leaves the initialized flag as it was, and a
\* call that starts while the flag is false starts with CREATE TABLE.
C35_SchemaBeforeData ==
  [][\A p \in Procs :
       LET c == call[p]
           next == call'[p]
           starts == c.pc \in {"idle", "done", "thrown"} /\ next.pc \notin {"idle", "done", "thrown"}
       IN  /\ next.pc \in DataPcs => schema' = {"table", "index"}
           /\ (starts /\ initialized) => next.pc \in DataPcs
           /\ (starts /\ ~initialized) => next.pc = "sql_table"
           /\ (c.pc \in SchemaPcs /\ next.pc = "thrown") =>
                 /\ initialized' = initialized
                 /\ schema' = schema]_vars

\* Two first calls overlap: one has completed initialize and is about to
\* INSERT while the other, started before the flag was set, is still to issue
\* its CREATE INDEX.
C35_Witness ==
  \E p, q \in Procs :
    /\ p # q
    /\ call[p].pc = "sql_insert"
    /\ call[q].pc = "sql_index"
    /\ initialized
    /\ schema = {"table", "index"}

\* The second of two upsert() calls in a row with one input has returned.
UpsertRepeated ==
  call[Caller].op = "upsert" /\ call[Caller].pc = "done" /\ IsDef(first)

\* The second call has answered created = false with the id of the first, and
\* the store is the store the first call left but for that record's updatedAt.
SameButUpdatedAt ==
  LET c == call[Caller]
  IN  /\ ~c.result.created
      /\ IsDef(c.result.person)
      /\ IsDef(Val(first).person)
      /\ Val(c.result.person).id = Val(Val(first).person).id
      /\ DOMAIN storage = DOMAIN pre
      /\ \A i \in DOMAIN pre :
           IF i = Val(Val(first).person).id
           THEN [storage[i] EXCEPT !.updatedAt = pre[i].updatedAt] = pre[i]
           ELSE storage[i] = pre[i]

\* C36, as claimed: in sequential execution, for every input, upsert(input)
\* called twice in a row answers created = false the second time with the id
\* of the first, and the store after the second call is the store after the
\* first but for that record's updatedAt.
C36_UpsertTwice == UpsertRepeated => SameButUpdatedAt

\* C36, amended: the same, provided no two stored records have the
\* normalized form of the input's name.
C36_UpsertTwiceOfSingleName ==
  LET c == call[Caller]
      named == {i \in DOMAIN pre :
                  pre[i].normalizedName = normalizeName(Val(c.arg.input.name))}
  IN  (UpsertRepeated /\ Cardinality(named) <= 1) => SameButUpdatedAt

\* upsert() has been called twice in a row with the name of one stored record
\* in another spelling, at two times of the clock: the second call has updated
\* the record of the first, whose updatedAt alone has changed.
C36_Witness ==
  LET c == call[Caller]
  IN  /\ UpsertRepeated
      /\ c.arg.input.name = Some(MariaPadded)
      /\ ~c.result.created
      /\ IsDef(c.result.person)
      /\ Val(c.result.person).id \in DOMAIN pre
      /\ storage[Val(c.result.person).id].updatedAt # pre[Val(c.result.person).id].updatedAt
      /\ SameButUpdatedAt

====
